---- MODULE Spec2Model ----
(***************************************************************************)
(* Verification model of the BWGA Nexus scoring and matching engines.      *)
(*                                                                         *)
(* Number representation (Python floats are modelled as exact rationals):  *)
(*   - a normalized metric 0.00 .. 1.00 is an integer number of hundredths *)
(*     (0.85 is 85); growth_rate and inflation_rate likewise (0.07 is 7);  *)
(*   - a component score is an integer number of 1/200 points, Points(p);  *)
(*   - a composite score is an integer number of 1/20000 points, the unit  *)
(*     of (score in 1/200) * (weight in hundredths), Composite(p);         *)
(*   - a value rounded to 2 decimals is an integer number of hundredths.   *)
(***************************************************************************)
EXTENDS Integers, Sequences, FiniteSets, TLC

VARIABLES pc, op, regional_data, company_profile, arg, data, entity, region, registry,
          ids, result, hashseed, now, previous, system, requests,
          collector

vars == <<pc, op, regional_data, company_profile, arg, data, entity, region, registry,
          ids, result, hashseed, now, previous, system, requests,
          collector>>

\* the state of the process the engines run in: the order in which this
\* process iterates a set of ProjectType members (it follows from the string
\* hash seed chosen at interpreter start), the clock datetime.now() reads, and
\* the log of the calls whose results are compared with one another; then the
\* service: the registries of the global RevolutionaryRegionalSystem and the
\* request each server thread is handling; and the RealTimeDataCollector
procVars == <<hashseed, now, previous, system, requests, collector>>

(***************************************************************************)
(* Bounds of the explored input space.                                     *)
(***************************************************************************)
GridN == 4
MaxScore == 100
MaxRoi == 30
MaxGrowth == 15
MaxUnemployment == 25
MaxLimit == 3

\* the number of calls whose results are compared
MaxCalls == 2

\* the number of threads of the server that handle requests at the same time
NThreads == 2

\* the clock of the data collector runs for MaxTicks steps of 100 seconds
MaxTicks == 4

(***************************************************************************)
(* Arithmetic helpers.                                                     *)
(***************************************************************************)
Max(a, b) == IF a >= b THEN a ELSE b
Min(a, b) == IF a <= b THEN a ELSE b

Points(p) == p * 200
Composite(p) == p * 20000

\* x, in units of 1/d of the target unit, lies halfway between two multiples
IsTie(x, d) == 2 * (x % d) = d

\* Python round() of a float to a number of decimals; x is the exact value in
\* units of 1/d of the target unit.  Off a tie the result is the nearest
\* multiple.  On an exact tie the binary float that the program holds lies
\* just below or just above the tie (or on it), so the result is either
\* neighbour: up says which.  Where a call rounds several values, up is the
\* set of the names of the values whose tie goes up.
Round(x, d, up) ==
    LET q == x \div d
        r == x % d
    IN  IF 2 * r < d THEN q
        ELSE IF 2 * r > d THEN q + 1
        ELSE IF up THEN q + 1 ELSE q

\* max(0, min(100, x)) on a component score
Clamp100(x) == Max(0, Min(Points(100), x))

RECURSIVE SumOver(_, _)
SumOver(f, S) ==
    IF S = {} THEN 0
    ELSE LET k == CHOOSE k \in S : TRUE
         IN  f[k] + SumOver(f, S \ {k})

\* every way to pick, for each element of the sequence ties, the subset of
\* its tied values that rounds up
RECURSIVE TieChoices(_)
TieChoices(ties) ==
    IF ties = << >> THEN {<< >>}
    ELSE {<<h>> \o t : h \in SUBSET Head(ties), t \in TieChoices(Tail(ties))}

ComponentNames ==
    {"infrastructure", "talent", "cost_efficiency", "market_access",
     "regulatory", "political_stability", "growth_potential", "risk_factors",
     "digital_readiness", "sustainability", "innovation", "supply_chain"}

(***************************************************************************)
(* investment_algorithm.py : AdvancedRegionalInvestmentAlgorithm           *)
(***************************************************************************)
\* self.weights, in hundredths
Adv_weights ==
    [infrastructure |-> 12, talent |-> 10, cost_efficiency |-> 15,
     market_access |-> 12, regulatory |-> 8, political_stability |-> 7,
     growth_potential |-> 10, risk_factors |-> 8, digital_readiness |-> 6,
     sustainability |-> 5, innovation |-> 4, supply_chain |-> 3]

\* self.tier_thresholds, in composite units
Adv_tier_thresholds ==
    [TIER_1 |-> Composite(85), TIER_2 |-> Composite(70), TIER_3 |-> Composite(55)]

InvestmentTierValue ==
    [TIER_1 |-> "Tier 1 - Premium Investment",
     TIER_2 |-> "Tier 2 - Strategic Investment",
     TIER_3 |-> "Tier 3 - Emerging Opportunity"]

\* self.industry_multipliers, in tenths; keyed by IndustryType
Adv_industry_multipliers ==
    [TECHNOLOGY |-> [talent |-> 13, digital_readiness |-> 14, innovation |-> 15,
                     cost_efficiency |-> 9],
     MANUFACTURING |-> [infrastructure |-> 12, supply_chain |-> 13,
                        cost_efficiency |-> 11, talent |-> 9],
     LOGISTICS |-> [infrastructure |-> 14, market_access |-> 13, supply_chain |-> 12,
                    cost_efficiency |-> 11],
     FINANCE |-> [regulatory |-> 13, political_stability |-> 12, talent |-> 11,
                  market_access |-> 11]]

\* _get_industry_type: industry_mapping.get(industry_focus.lower(), MANUFACTURING)
Adv_get_industry_type(industry_focus) ==
    CASE industry_focus = "manufacturing" -> "MANUFACTURING"
      [] industry_focus \in {"tech", "technology"} -> "TECHNOLOGY"
      [] industry_focus = "logistics" -> "LOGISTICS"
      [] industry_focus = "finance" -> "FINANCE"
      [] industry_focus = "healthcare" -> "HEALTHCARE"
      [] industry_focus = "energy" -> "ENERGY"
      [] industry_focus = "retail" -> "RETAIL"
      [] industry_focus = "real_estate" -> "REAL_ESTATE"
      [] OTHER -> "MANUFACTURING"

\* _apply_industry_multiplier
Adv_apply_industry_multiplier(base_score, component, industry_type) ==
    IF /\ industry_type \in DOMAIN Adv_industry_multipliers
       /\ component \in DOMAIN Adv_industry_multipliers[industry_type]
    THEN (base_score * Adv_industry_multipliers[industry_type][component]) \div 10
    ELSE base_score

Adv_calculate_infrastructure_score(rd, industry_type) ==
    LET base == Adv_apply_industry_multiplier(Points(rd.infrastructure_score),
                                              "infrastructure", industry_type)
        bonus == IF rd.infrastructure_score > 80 THEN Points(10) ELSE 0
        penalty == IF rd.infrastructure_score < 40 THEN Points(20) ELSE 0
    IN  Clamp100(base + bonus - penalty)

Adv_calculate_talent_score(rd, cp, industry_type) ==
    LET base == Adv_apply_industry_multiplier(Points(rd.talent_availability),
                                              "talent", industry_type)
        typed == IF cp.company_type = "tech" THEN (base * 12) \div 10
                 ELSE IF cp.company_type = "manufacturing" THEN (base * 9) \div 10
                 ELSE base
        pop == IF rd.population > 1000000 THEN Points(5)
               ELSE IF rd.population < 100000 THEN 0 - Points(10)
               ELSE 0
    IN  Clamp100(typed + pop)

Adv_calculate_cost_efficiency(rd, cp, industry_type) ==
    LET ce0 == Adv_apply_industry_multiplier(Points(100 - rd.cost_of_living),
                                             "cost_efficiency", industry_type)
        tax_efficiency == Adv_apply_industry_multiplier(Points(100 - rd.tax_rate),
                                                        "regulatory", industry_type)
        ce1 == IF cp.investment_size = "large" THEN (ce0 * 11) \div 10
               ELSE IF cp.investment_size = "small" THEN (ce0 * 9) \div 10
               ELSE ce0
        ce2 == IF rd.cost_of_living < 30 THEN ce1 + Points(15)
               ELSE IF rd.cost_of_living > 70 THEN ce1 - Points(10)
               ELSE ce1
    IN  Clamp100((ce2 + tax_efficiency) \div 2)

Adv_calculate_market_access(rd, industry_type) ==
    LET base == Adv_apply_industry_multiplier(Points(rd.market_access),
                                              "market_access", industry_type)
        bonus == IF rd.region = "asia-pacific" THEN Points(10)
                 ELSE IF rd.region = "europe" THEN Points(8)
                 ELSE IF rd.region = "americas" THEN Points(6)
                 ELSE 0
    IN  Clamp100(base + bonus)

Adv_calculate_regulatory_score(rd, industry_type) ==
    LET base == Adv_apply_industry_multiplier(Points(rd.regulatory_ease),
                                              "regulatory", industry_type)
        adj == IF rd.regulatory_ease > 70 THEN Points(10)
               ELSE IF rd.regulatory_ease < 30 THEN 0 - Points(15)
               ELSE 0
    IN  Clamp100(base + adj)

Adv_calculate_political_stability(rd) ==
    LET base == Points(rd.political_stability)
        adj == IF rd.political_stability > 80 THEN Points(10)
               ELSE IF rd.political_stability < 40 THEN 0 - Points(20)
               ELSE 0
    IN  Clamp100(base + adj)

Adv_calculate_growth_potential(rd, cp) ==
    LET g0 == Points(rd.growth_rate)
        g1 == IF rd.gdp_per_capita > 50000 THEN (g0 * 8) \div 10
              ELSE IF rd.gdp_per_capita < 10000 THEN (g0 * 13) \div 10
              ELSE g0
        g2 == IF rd.population > 5000000 THEN g1 + Points(5) ELSE g1
    IN  Clamp100(g2)

Adv_calculate_risk_factors(rd, cp) ==
    LET r0 == Points(100)
        r1 == IF rd.currency_stability < 50 THEN r0 - Points(20) ELSE r0
        r2 == IF rd.inflation_rate > 10 THEN r1 - Points(15) ELSE r1
        r3 == IF rd.political_stability < 50 THEN r2 - Points(25) ELSE r2
        r4 == IF cp.risk_tolerance = "low" THEN (r3 * 12) \div 10
              ELSE IF cp.risk_tolerance = "high" THEN (r3 * 8) \div 10
              ELSE r3
    IN  Clamp100(r4)

\* the four placeholder components return the constant 50
Adv_calculate_digital_readiness(rd, cp) == Points(50)
Adv_calculate_sustainability_score(rd, cp) == Points(50)
Adv_calculate_innovation_score(rd, cp) == Points(50)
Adv_calculate_supply_chain_score(rd, cp) == Points(50)

Adv_component_scores(rd, cp) ==
    LET industry_type == Adv_get_industry_type(cp.industry_focus)
    IN  [infrastructure |-> Adv_calculate_infrastructure_score(rd, industry_type),
         talent |-> Adv_calculate_talent_score(rd, cp, industry_type),
         cost_efficiency |-> Adv_calculate_cost_efficiency(rd, cp, industry_type),
         market_access |-> Adv_calculate_market_access(rd, industry_type),
         regulatory |-> Adv_calculate_regulatory_score(rd, industry_type),
         political_stability |-> Adv_calculate_political_stability(rd),
         growth_potential |-> Adv_calculate_growth_potential(rd, cp),
         risk_factors |-> Adv_calculate_risk_factors(rd, cp),
         digital_readiness |-> Adv_calculate_digital_readiness(rd, cp),
         sustainability |-> Adv_calculate_sustainability_score(rd, cp),
         innovation |-> Adv_calculate_innovation_score(rd, cp),
         supply_chain |-> Adv_calculate_supply_chain_score(rd, cp)]

\* sum(score * self.weights[component] ...), in composite units
Adv_composite_score(component_scores) ==
    SumOver([c \in DOMAIN component_scores |-> component_scores[c] * Adv_weights[c]],
            DOMAIN component_scores)

\* Fault injection for C3: the two thresholds compared with > instead of >=.
Adv_determine_investment_tier_exclusive(composite_score) ==
    IF composite_score > Adv_tier_thresholds.TIER_1 THEN "TIER_1"
    ELSE IF composite_score > Adv_tier_thresholds.TIER_2 THEN "TIER_2"
    ELSE "TIER_3"

Adv_determine_investment_tier(composite_score) ==
    IF composite_score >= Adv_tier_thresholds.TIER_1 THEN "TIER_1"
    ELSE IF composite_score >= Adv_tier_thresholds.TIER_2 THEN "TIER_2"
    ELSE "TIER_3"

\* _calculate_break_even_time (bucketed); roi in hundredths of a percent
Adv_calculate_break_even_time(roi) ==
    IF roi > 2000 THEN "2-3 years"
    ELSE IF roi > 1500 THEN "3-4 years"
    ELSE IF roi > 1000 THEN "4-5 years"
    ELSE "5+ years"

\* a bracket table whose two upper steps are exchanged
Adv_score_bracket_bonus_exchanged(composite_score) ==
    IF composite_score > Composite(85) THEN 400
    ELSE IF composite_score > Composite(70) THEN 800
    ELSE IF composite_score < Composite(55) THEN 0 - 600
    ELSE 0

\* the score-bracket step of _calculate_roi_projection, hundredths of a percent
Adv_score_bracket_bonus(composite_score) ==
    IF composite_score > Composite(85) THEN 800
    ELSE IF composite_score > Composite(70) THEN 400
    ELSE IF composite_score < Composite(55) THEN 0 - 600
    ELSE 0

\* _calculate_roi_projection; base_roi in hundredths of a percent
Adv_calculate_roi_projection(composite_score, rd, cp, up) ==
    LET b0 == 1200 + Adv_score_bracket_bonus(composite_score)
        b1 == b0 + rd.growth_rate * 100
        b2 == IF cp.investment_size = "large" THEN b1 + 200
              ELSE IF cp.investment_size = "small" THEN b1 - 100
              ELSE b1
        base_roi == IF cp.timeline = "long-term" THEN b2 + 300 ELSE b2
    IN  [projected_roi |-> base_roi,
         confidence_interval |-> <<Round(base_roi - 300, 10, "confidence_low" \in up),
                                   Round(base_roi + 300, 10, "confidence_high" \in up)>>,
         time_to_break_even |-> Adv_calculate_break_even_time(base_roi)]

\* the locals of _calculate_cost_savings before rounding; percentages in
\* hundredths of a percent
Adv_cost_savings_locals(rd, cp) ==
    LET operational_savings == (100 - rd.cost_of_living) * 40
        tax_savings == rd.tax_rate * 25
        labor_savings == (100 - rd.talent_availability) * 30
        total_savings_percent == operational_savings + tax_savings + labor_savings
        multiplier == IF cp.investment_size = "enterprise" THEN 1000
                      ELSE IF cp.investment_size = "large" THEN 100
                      ELSE IF cp.investment_size = "medium" THEN 10
                      ELSE 1
    IN  [operational_savings |-> operational_savings,
         tax_savings |-> tax_savings,
         labor_savings |-> labor_savings,
         total_savings_percent |-> total_savings_percent,
         annual_savings |-> total_savings_percent * multiplier,
         multiplier |-> multiplier]

\* _calculate_cost_savings: the returned dict, every value rounded to 1 decimal
Adv_calculate_cost_savings(rd, cp, up) ==
    LET v == Adv_cost_savings_locals(rd, cp)
        r(name) == Round(v[name], 10, name \in up)
    IN  [annual_savings_millions |-> r("annual_savings"),
         savings_percentage |-> r("total_savings_percent"),
         breakdown |-> [operational_savings |-> r("operational_savings"),
                        tax_savings |-> r("tax_savings"),
                        labor_savings |-> r("labor_savings")],
         multiplier |-> v.multiplier]

\* the values rounded by calculate_investment_score that lie on a tie
Adv_ties(rd, cp) ==
    LET v == Adv_cost_savings_locals(rd, cp)
    IN  {name \in DOMAIN v \ {"multiplier"} : IsTie(v[name], 10)}

RiskLevelValue ==
    [LOW |-> "Low Risk", MEDIUM |-> "Medium Risk", HIGH |-> "High Risk",
     CRITICAL |-> "Critical Risk"]

\* Which of the keywords tested by the two _generate_mitigation_strategies
\* chains occur as substrings of factor.lower(), for every risk-factor text the
\* two _generate_risk_assessment methods produce.
KeywordsIn(factor) ==
    CASE factor = "Currency volatility risk" -> {"currency"}
      [] factor = "Political instability risk" -> {"political"}
      [] factor = "Regulatory complexity risk" -> {"regulatory"}
      [] factor = "Limited market access risk" -> {"market access"}
      [] factor = "High inflation risk" -> {"inflation"}
      [] factor = "High inflation rate" -> {"inflation"}
      [] factor = "Currency volatility" -> {"currency"}
      [] factor = "Political instability" -> {"political"}
      [] factor = "Geopolitical risks" -> {"geopolitical", "political"}
      [] OTHER -> {}

\* the if/elif chain of _generate_mitigation_strategies for one risk factor
Adv_mitigation_of(risk) ==
    IF "currency" \in KeywordsIn(risk)
    THEN <<"Implement currency hedging strategies">>
    ELSE IF "political" \in KeywordsIn(risk)
    THEN <<"Establish local partnerships and government relations">>
    ELSE IF "regulatory" \in KeywordsIn(risk)
    THEN <<"Engage local legal and compliance experts">>
    ELSE IF "market access" \in KeywordsIn(risk)
    THEN <<"Develop alternative market entry strategies">>
    ELSE IF "inflation" \in KeywordsIn(risk)
    THEN <<"Implement cost escalation clauses in contracts">>
    ELSE << >>

RECURSIVE Adv_generate_mitigation_strategies(_)
Adv_generate_mitigation_strategies(risk_factors) ==
    IF risk_factors = << >> THEN << >>
    ELSE Adv_mitigation_of(Head(risk_factors))
         \o Adv_generate_mitigation_strategies(Tail(risk_factors))

Adv_generate_insurance_recommendations(risk_level) ==
    CASE risk_level = "LOW" -> <<"Standard business insurance", "Property insurance">>
      [] risk_level = "MEDIUM" -> <<"Political risk insurance", "Currency risk insurance",
                                    "Enhanced liability coverage">>
      [] risk_level = "HIGH" -> <<"Comprehensive political risk insurance",
                                  "War and terrorism coverage", "Expropriation insurance">>
      [] OTHER -> <<"Specialized high-risk insurance package",
                    "Government-backed insurance programs">>

\* The ordered checks of _generate_risk_assessment: each one that triggers
\* appends its factor and overwrites risk_level with its own level.
Adv_risk_checks(rd) ==
    << [triggered |-> rd.currency_stability < 50,
        factor |-> "Currency volatility risk", level |-> "MEDIUM"],
       [triggered |-> rd.political_stability < 60,
        factor |-> "Political instability risk", level |-> "HIGH"],
       [triggered |-> rd.regulatory_ease < 40,
        factor |-> "Regulatory complexity risk", level |-> "MEDIUM"],
       [triggered |-> rd.market_access < 50,
        factor |-> "Limited market access risk", level |-> "MEDIUM"],
       [triggered |-> rd.inflation_rate > 8,
        factor |-> "High inflation risk", level |-> "HIGH"] >>

\* Sequential evaluation of a list of checks, as the if-statements run:
\* acc is [risk_factors, risk_level] so far.
RECURSIVE RunChecks(_, _)
RunChecks(checks, acc) ==
    IF checks = << >> THEN acc
    ELSE LET c == Head(checks)
             next == IF c.triggered
                     THEN [risk_factors |-> Append(acc.risk_factors, c.factor),
                           risk_level |-> c.level]
                     ELSE acc
         IN  RunChecks(Tail(checks), next)

Adv_generate_risk_assessment(rd, cp) ==
    LET run == RunChecks(Adv_risk_checks(rd), [risk_factors |-> << >>, risk_level |-> "LOW"])
        risk_factors == IF run.risk_factors = << >>
                        THEN <<"Minimal risk factors identified">>
                        ELSE run.risk_factors
    IN  [risk_level |-> RiskLevelValue[run.risk_level],
         risk_score |-> rd.political_stability * 10,
         risk_factors |-> risk_factors,
         mitigation_strategies |-> Adv_generate_mitigation_strategies(risk_factors),
         insurance_recommendations |-> Adv_generate_insurance_recommendations(run.risk_level)]

Adv_calculate_confidence_level(composite_score) ==
    IF composite_score > Composite(85) THEN "Very High (95%)"
    ELSE IF composite_score > Composite(70) THEN "High (85%)"
    ELSE IF composite_score > Composite(55) THEN "Medium (75%)"
    ELSE "Low (65%)"

\* calculate_investment_score: everything up to line 191 is computed, then the
\* call of self._generate_recommendations (line 192) finds no such method in
\* the class and raises AttributeError; the locals computed so far are kept in
\* the outcome so that they can be inspected.
Adv_calculate_investment_score(rd, cp, up) ==
    LET component_scores == Adv_component_scores(rd, cp)
        composite_score == Adv_composite_score(component_scores)
        investment_tier == Adv_determine_investment_tier(composite_score)
    IN  [status |-> "raised",
         exception |-> "AttributeError",
         component_scores |-> component_scores,
         composite_score |-> composite_score,
         investment_tier |-> InvestmentTierValue[investment_tier],
         tier_level |-> investment_tier,
         roi_projection |-> Adv_calculate_roi_projection(composite_score, rd, cp, up),
         cost_savings |-> Adv_calculate_cost_savings(rd, cp, up),
         risk_assessment |-> Adv_generate_risk_assessment(rd, cp)]

(***************************************************************************)
(* enhanced_investment_algorithm.py : EnhancedInvestmentAlgorithm          *)
(***************************************************************************)
Enh_weights ==
    [infrastructure |-> 12, talent |-> 10, cost_efficiency |-> 15,
     market_access |-> 12, regulatory |-> 8, political_stability |-> 7,
     growth_potential |-> 10, risk_factors |-> 8, digital_readiness |-> 6,
     sustainability |-> 5, innovation |-> 4, supply_chain |-> 3]

Enh_tier_thresholds ==
    [TIER_1 |-> Composite(85), TIER_2 |-> Composite(70), TIER_3 |-> Composite(55)]

\* self.industry_multipliers, in tenths; keyed by industry_focus.lower()
Enh_industry_multipliers ==
    [technology |-> [talent |-> 13, digital_readiness |-> 14, innovation |-> 15,
                     cost_efficiency |-> 9],
     manufacturing |-> [infrastructure |-> 12, supply_chain |-> 13,
                        cost_efficiency |-> 11, talent |-> 9],
     logistics |-> [infrastructure |-> 14, market_access |-> 13, supply_chain |-> 12,
                    cost_efficiency |-> 11],
     finance |-> [regulatory |-> 13, political_stability |-> 12, talent |-> 11,
                  market_access |-> 11]]

\* Fault injection for C9: the bonus above 0.8 subtracted instead of added.
Enh_calculate_infrastructure_score_sign(rd) ==
    LET base == Points(rd.infrastructure_score)
        bonus == IF rd.infrastructure_score > 80 THEN Points(10) ELSE 0
        penalty == IF rd.infrastructure_score < 40 THEN Points(20) ELSE 0
    IN  Clamp100(base - bonus - penalty)

Enh_calculate_infrastructure_score(rd) ==
    LET base == Points(rd.infrastructure_score)
        bonus == IF rd.infrastructure_score > 80 THEN Points(10) ELSE 0
        penalty == IF rd.infrastructure_score < 40 THEN Points(20) ELSE 0
    IN  Clamp100(base + bonus - penalty)

Enh_calculate_talent_score(rd, cp) ==
    LET base == Points(rd.talent_availability)
        typed == IF cp.company_type = "tech" THEN (base * 12) \div 10
                 ELSE IF cp.company_type = "manufacturing" THEN (base * 9) \div 10
                 ELSE base
        pop == IF rd.population > 1000000 THEN Points(5)
               ELSE IF rd.population < 100000 THEN 0 - Points(10)
               ELSE 0
    IN  Clamp100(typed + pop)

Enh_calculate_cost_efficiency(rd, cp) ==
    LET ce0 == Points(100 - rd.cost_of_living)
        tax_efficiency == Points(100 - rd.tax_rate)
        ce1 == IF cp.investment_size = "large" THEN (ce0 * 11) \div 10
               ELSE IF cp.investment_size = "small" THEN (ce0 * 9) \div 10
               ELSE ce0
        ce2 == IF rd.cost_of_living < 30 THEN ce1 + Points(15)
               ELSE IF rd.cost_of_living > 80 THEN ce1 - Points(20)
               ELSE ce1
    IN  Clamp100((ce2 + tax_efficiency) \div 2)

Enh_calculate_market_access(rd) ==
    LET base == Points(rd.market_access)
        bonus == IF rd.population > 5000000 THEN Points(15)
                 ELSE IF rd.population > 1000000 THEN Points(10)
                 ELSE 0
    IN  Clamp100(base + bonus)

Enh_calculate_regulatory_score(rd) ==
    LET base == Points(rd.regulatory_ease)
        adj == IF rd.tax_rate < 20 THEN Points(10)
               ELSE IF rd.tax_rate > 40 THEN 0 - Points(15)
               ELSE 0
    IN  Clamp100(base + adj)

Enh_calculate_political_stability(rd) ==
    LET base == Points(rd.political_stability)
        adj == IF rd.geopolitical_risk < 20 THEN Points(10)
               ELSE IF rd.geopolitical_risk > 60 THEN 0 - Points(20)
               ELSE 0
    IN  Clamp100(base + adj)

Enh_calculate_growth_potential(rd, cp) ==
    LET g0 == Points(rd.growth_rate)
        g1 == IF rd.gdp_per_capita > 50000 THEN (g0 * 11) \div 10
              ELSE IF rd.gdp_per_capita < 10000 THEN (g0 * 9) \div 10
              ELSE g0
        g2 == IF cp.industry_focus \in {"technology", "healthcare"}
              THEN (g1 * 12) \div 10 ELSE g1
    IN  Clamp100(g2)

Enh_calculate_risk_factors(rd, cp) ==
    LET r0 == Points(100)
        r1 == IF rd.inflation_rate > 10 THEN r0 - Points(20)
              ELSE IF rd.inflation_rate < 2 THEN r0 + Points(10)
              ELSE r0
        r2 == IF rd.currency_stability < 50 THEN r1 - Points(15) ELSE r1
        r3 == IF rd.market_volatility > 70 THEN r2 - Points(10) ELSE r2
        r4 == IF cp.risk_tolerance = "low" THEN (r3 * 11) \div 10
              ELSE IF cp.risk_tolerance = "high" THEN (r3 * 9) \div 10
              ELSE r3
    IN  Clamp100(r4)

Enh_calculate_digital_readiness(rd, cp) ==
    LET base == Points(rd.digital_infrastructure)
    IN  Clamp100(IF cp.company_type = "tech" THEN (base * 13) \div 10 ELSE base)

\* sustainability_goals is modelled by whether the list is non-empty
Enh_calculate_sustainability_score(rd, cp) ==
    LET base == Points(rd.sustainability_score)
    IN  Clamp100(IF cp.sustainability_goals THEN base + Points(10) ELSE base)

Enh_calculate_innovation_score(rd, cp) ==
    LET base == Points(rd.innovation_index)
    IN  Clamp100(IF cp.industry_focus = "technology" THEN (base * 14) \div 10 ELSE base)

Enh_calculate_supply_chain_score(rd, cp) ==
    LET base == Points(rd.supply_chain_efficiency)
    IN  Clamp100(IF cp.industry_focus = "manufacturing" THEN (base * 12) \div 10 ELSE base)

\* lines 154-174: the twelve clamped scores, then the industry multiplier is
\* applied to the entries of component_scores in place
Enh_component_scores(rd, cp) ==
    LET clamped ==
            [infrastructure |-> Enh_calculate_infrastructure_score(rd),
             talent |-> Enh_calculate_talent_score(rd, cp),
             cost_efficiency |-> Enh_calculate_cost_efficiency(rd, cp),
             market_access |-> Enh_calculate_market_access(rd),
             regulatory |-> Enh_calculate_regulatory_score(rd),
             political_stability |-> Enh_calculate_political_stability(rd),
             growth_potential |-> Enh_calculate_growth_potential(rd, cp),
             risk_factors |-> Enh_calculate_risk_factors(rd, cp),
             digital_readiness |-> Enh_calculate_digital_readiness(rd, cp),
             sustainability |-> Enh_calculate_sustainability_score(rd, cp),
             innovation |-> Enh_calculate_innovation_score(rd, cp),
             supply_chain |-> Enh_calculate_supply_chain_score(rd, cp)]
        industry_type == cp.industry_focus
    IN  IF industry_type \in DOMAIN Enh_industry_multipliers
        THEN [c \in DOMAIN clamped |->
                 IF c \in DOMAIN Enh_industry_multipliers[industry_type]
                 THEN (clamped[c] * Enh_industry_multipliers[industry_type][c]) \div 10
                 ELSE clamped[c]]
        ELSE clamped

Enh_composite_score(component_scores) ==
    SumOver([c \in DOMAIN component_scores |-> component_scores[c] * Enh_weights[c]],
            DOMAIN component_scores)

Enh_determine_investment_tier(composite_score) ==
    IF composite_score >= Enh_tier_thresholds.TIER_1 THEN "TIER_1"
    ELSE IF composite_score >= Enh_tier_thresholds.TIER_2 THEN "TIER_2"
    ELSE "TIER_3"

\* floor(20 * 10^9 / d) for 10 <= d < 2^31 / 5, by long division so that every
\* intermediate value stays a 32-bit integer
Floor2e10Div(d) ==
    LET q0 == 1000000000 \div d
        r0 == 1000000000 % d
        q1 == 4 * q0 + (4 * r0) \div d
        r1 == (4 * r0) % d
    IN  5 * q1 + (5 * r1) \div d

\* _calculate_break_even_time (numeric months).  roi is in units of 6/10^8 of
\* a percent, the unit in which adjusted_roi of _calculate_roi_projection is an
\* integer; int(12 / (roi / 100)) = floor(1200 / roi) = floor(2 * 10^10 / roi
\* units).  The returned text is "N/A" or "<months> months".
Enh_calculate_break_even_time(roi) ==
    IF roi <= 0 THEN [text |-> "N/A", months |-> 0]
    ELSE [text |-> "months", months |-> Floor2e10Div(roi)]

Enh_calculate_confidence_level(composite_score) ==
    IF composite_score >= Composite(90) THEN "Very High (95%)"
    ELSE IF composite_score >= Composite(80) THEN "High (85%)"
    ELSE IF composite_score >= Composite(70) THEN "Medium (75%)"
    ELSE IF composite_score >= Composite(60) THEN "Moderate (65%)"
    ELSE "Low (55%)"

\* _calculate_roi_projection: adjusted_roi = 8 * (score / 100) * 1.5 * industry
\* factor * size factor = 6 * score * i * s / 10^8 percent with score in
\* composite units and i, s in tenths (risk_adjusted_roi is left out).
\* adjusted_roi of _calculate_roi_projection, in units of 6/10^8 of a percent:
\* 8.0 * (composite_score / 100) * 1.5 * industry_multiplier * size_multiplier
Enh_adjusted_roi(composite_score, cp) ==
    LET i == IF cp.industry_focus = "technology" THEN 13
             ELSE IF cp.industry_focus = "manufacturing" THEN 11
             ELSE 10
        s == IF cp.investment_size = "large" THEN 12
             ELSE IF cp.investment_size = "small" THEN 9
             ELSE 10
    IN  composite_score * i * s

Enh_calculate_roi_projection(composite_score, rd, cp, up) ==
    LET adjusted_roi == Enh_adjusted_roi(composite_score, cp)
    IN  [projected_roi |-> Round(6 * adjusted_roi, 1000000, "projected_roi" \in up),
         confidence_level |-> Enh_calculate_confidence_level(composite_score),
         break_even_months |-> Enh_calculate_break_even_time(adjusted_roi)]

\* _calculate_cost_savings: 1000000 * (1-c)*2 * (1-t)*1.5 * size
Enh_calculate_cost_savings(rd, cp) ==
    LET size_multiplier == CASE cp.investment_size = "small" -> 5
                             [] cp.investment_size = "medium" -> 10
                             [] cp.investment_size = "large" -> 20
                             [] cp.investment_size = "enterprise" -> 50
                             [] OTHER -> 10
    IN  [annual_savings |-> 30 * (100 - rd.cost_of_living) * (100 - rd.tax_rate)
                               * size_multiplier,
         cost_efficiency_score |-> (100 - rd.cost_of_living) * 10,
         tax_advantage |-> (100 - rd.tax_rate) * 10,
         operational_efficiency |-> rd.infrastructure_score * 10]

Enh_mitigation_of(factor) ==
    IF "inflation" \in KeywordsIn(factor)
    THEN <<"Implement inflation-linked contracts">>
    ELSE IF "currency" \in KeywordsIn(factor)
    THEN <<"Use currency hedging strategies">>
    ELSE IF "political" \in KeywordsIn(factor)
    THEN <<"Diversify across multiple regions">>
    ELSE IF "geopolitical" \in KeywordsIn(factor)
    THEN <<"Establish local partnerships">>
    ELSE << >>

RECURSIVE Enh_generate_mitigation_strategies(_)
Enh_generate_mitigation_strategies(risk_factors) ==
    IF risk_factors = << >> THEN << >>
    ELSE Enh_mitigation_of(Head(risk_factors))
         \o Enh_generate_mitigation_strategies(Tail(risk_factors))

Enh_generate_insurance_recommendations(risk_level) ==
    CASE risk_level = "LOW" -> <<"Standard business insurance", "Property insurance">>
      [] risk_level = "MEDIUM" -> <<"Enhanced business insurance",
                                    "Political risk insurance", "Currency insurance">>
      [] risk_level = "HIGH" -> <<"Comprehensive risk insurance", "Political risk insurance",
                                  "Currency insurance", "Supply chain insurance">>
      [] OTHER -> <<"Full risk coverage", "Political risk insurance", "Currency insurance",
                    "Supply chain insurance", "Force majeure coverage">>

\* Fault injection for C6: the geopolitical check evaluated first instead of
\* last, so that a later, milder check overwrites its level.
Enh_risk_checks_geopolitical_first(rd) ==
    << [triggered |-> rd.geopolitical_risk > 60,
        factor |-> "Geopolitical risks", level |-> "CRITICAL"],
       [triggered |-> rd.inflation_rate > 10,
        factor |-> "High inflation rate", level |-> "MEDIUM"],
       [triggered |-> rd.currency_stability < 50,
        factor |-> "Currency volatility", level |-> "HIGH"],
       [triggered |-> rd.political_stability < 60,
        factor |-> "Political instability", level |-> "HIGH"] >>

Enh_risk_checks(rd) ==
    << [triggered |-> rd.inflation_rate > 10,
        factor |-> "High inflation rate", level |-> "MEDIUM"],
       [triggered |-> rd.currency_stability < 50,
        factor |-> "Currency volatility", level |-> "HIGH"],
       [triggered |-> rd.political_stability < 60,
        factor |-> "Political instability", level |-> "HIGH"],
       [triggered |-> rd.geopolitical_risk > 60,
        factor |-> "Geopolitical risks", level |-> "CRITICAL"] >>

Enh_generate_risk_assessment(rd, cp) ==
    LET run == RunChecks(Enh_risk_checks(rd), [risk_factors |-> << >>, risk_level |-> "LOW"])
        risk_factors == IF run.risk_factors = << >>
                        THEN <<"Low risk environment">>
                        ELSE run.risk_factors
    IN  [risk_level |-> RiskLevelValue[run.risk_level],
         risk_factors |-> risk_factors,
         mitigation_strategies |-> Enh_generate_mitigation_strategies(risk_factors),
         insurance_recommendations |-> Enh_generate_insurance_recommendations(run.risk_level)]

\* _generate_recommendations, on the (multiplied) component scores
Enh_generate_recommendations(component_scores, cp) ==
    (IF component_scores.infrastructure < Points(70)
     THEN <<"Consider infrastructure development partnerships">> ELSE << >>)
    \o (IF component_scores.talent < Points(70)
        THEN <<"Implement talent development programs">> ELSE << >>)
    \o (IF component_scores.cost_efficiency > Points(80)
        THEN <<"Leverage cost advantages for competitive pricing">> ELSE << >>)
    \o (IF component_scores.digital_readiness < Points(60)
        THEN <<"Invest in digital infrastructure development">> ELSE << >>)
    \o (IF component_scores.sustainability < Points(60)
        THEN <<"Develop sustainability initiatives">> ELSE << >>)

\* calculate_investment_score: the returned AlgorithmResult; composite_score is
\* rounded to 2 decimals (hundredths), component_scores likewise.
Enh_calculate_investment_score(rd, cp, up) ==
    LET component_scores == Enh_component_scores(rd, cp)
        composite_score == Enh_composite_score(component_scores)
        investment_tier == Enh_determine_investment_tier(composite_score)
    IN  [status |-> "ok",
         composite_score |-> Round(composite_score, 200, "composite_score" \in up),
         investment_tier |-> InvestmentTierValue[investment_tier],
         tier_level |-> investment_tier,
         roi_projection |-> Enh_calculate_roi_projection(composite_score, rd, cp, up),
         cost_savings |-> Enh_calculate_cost_savings(rd, cp),
         risk_assessment |-> Enh_generate_risk_assessment(rd, cp),
         component_scores |-> [c \in DOMAIN component_scores |->
                                  Round(component_scores[c], 2, c \in up)],
         confidence_level |-> Enh_calculate_confidence_level(composite_score),
         recommendations |-> Enh_generate_recommendations(component_scores, cp)]

\* the values rounded by calculate_investment_score that lie on a tie
Enh_ties(rd, cp) ==
    LET component_scores == Enh_component_scores(rd, cp)
        composite_score == Enh_composite_score(component_scores)
    IN  {c \in DOMAIN component_scores : IsTie(component_scores[c], 2)}
        \cup (IF IsTie(composite_score, 200) THEN {"composite_score"} ELSE {})
        \cup (IF IsTie(6 * Enh_adjusted_roi(composite_score, cp), 1000000)
              THEN {"projected_roi"} ELSE {})

(***************************************************************************)
(* BWGA_NEXUS_COMPLETE.py : advanced_investment_algorithm(data)            *)
(* data is a dict: a function from some of the field names to entries      *)
(* [parses, v]; parses = FALSE is a value float() rejects.                 *)
(***************************************************************************)
Flat_fields ==
    {"infrastructure_score", "talent_availability", "cost_of_living", "market_access",
     "risk_factor", "growth_rate", "regulatory_ease", "political_stability",
     "digital_infrastructure", "supply_chain_efficiency", "innovation_index",
     "sustainability_score", "geopolitical_risk", "market_volatility"}

\* the second argument of each data.get(...), lines 37-50
Flat_defaults ==
    [infrastructure_score |-> 70, talent_availability |-> 70, cost_of_living |-> 50,
     market_access |-> 70, risk_factor |-> 50, growth_rate |-> 5, regulatory_ease |-> 70,
     political_stability |-> 70, digital_infrastructure |-> 70,
     supply_chain_efficiency |-> 70, innovation_index |-> 70, sustainability_score |-> 70,
     geopolitical_risk |-> 30, market_volatility |-> 40]

\* the except branch, lines 51-54
Flat_fallback ==
    [f \in Flat_fields |->
        IF f = "geopolitical_risk" THEN 30
        ELSE IF f = "market_volatility" THEN 40
        ELSE 70]

\* the values of the fourteen locals after the try/except
Flat_extract(d) ==
    IF \E f \in DOMAIN d : ~d[f].parses
    THEN Flat_fallback
    ELSE [f \in Flat_fields |-> IF f \in DOMAIN d THEN d[f].v ELSE Flat_defaults[f]]

\* the weight of each term of the weighted sum (lines 57-72), in hundredths;
\* the two last terms are subtracted
Flat_weights ==
    [infrastructure_score |-> 12, talent_availability |-> 10, cost_of_living |-> 15,
     market_access |-> 12, regulatory_ease |-> 8, political_stability |-> 7,
     growth_rate |-> 10, risk_factor |-> 8, digital_infrastructure |-> 6,
     sustainability_score |-> 5, innovation_index |-> 4, supply_chain_efficiency |-> 3,
     geopolitical_risk |-> 0 - 5, market_volatility |-> 0 - 5]

\* the operand of each term: cost and risk enter as (1 - x), growth as
\* growth * 10
Flat_term(x, f) ==
    IF f \in {"cost_of_living", "risk_factor"} THEN 100 - x[f]
    ELSE IF f = "growth_rate" THEN x[f] * 10
    ELSE x[f]

\* score, in hundredths of a point
Flat_score(x) ==
    SumOver([f \in Flat_fields |-> Flat_term(x, f) * Flat_weights[f]], Flat_fields)

advanced_investment_algorithm(d, up) ==
    LET x == Flat_extract(d)
        score == Flat_score(x)
        tier == IF score >= 8500 THEN "TIER_1"
                ELSE IF score >= 7000 THEN "TIER_2"
                ELSE "TIER_3"
    IN  [status |-> "ok",
         score |-> score,
         tier |-> InvestmentTierValue[tier],
         roi |-> Round(8000 + (score - 7000) * 3, 10, up),
         risk_level |-> IF score >= 8500 THEN "Low"
                        ELSE IF score >= 7000 THEN "Medium" ELSE "High",
         components |-> [f \in Flat_fields |->
                            IF f \in {"cost_of_living", "risk_factor", "geopolitical_risk",
                                      "market_volatility"}
                            THEN 100 - x[f] ELSE x[f]]]

(***************************************************************************)
(* revolutionary_regional_system.py : RevolutionaryRegionalSystem          *)
(* growth_rate and unemployment_rate are percentages, kept in tenths of a  *)
(* percent (8.5 is 85); lists of projects and regions are sets.            *)
(***************************************************************************)
RRS_sample_regions ==
    << [region_id |-> "TX-AUS", population |-> 2500000, gdp_per_capita |-> 75000,
        unemployment_rate |-> 32, growth_rate |-> 85, infrastructure_score |-> 92,
        talent_availability |-> 88, cost_of_living |-> 75, regulatory_ease |-> 78,
        political_stability |-> 95, development_tier |-> "PREMIUM",
        project_opportunities |-> {"TECHNOLOGY", "SMART_CITY", "EDUCATION"}],
       [region_id |-> "NC-RAL", population |-> 1800000, gdp_per_capita |-> 68000,
        unemployment_rate |-> 38, growth_rate |-> 72, infrastructure_score |-> 85,
        talent_availability |-> 82, cost_of_living |-> 68, regulatory_ease |-> 75,
        political_stability |-> 90, development_tier |-> "ESTABLISHED",
        project_opportunities |-> {"TECHNOLOGY", "HEALTHCARE", "EDUCATION"}],
       [region_id |-> "TN-NAS", population |-> 2100000, gdp_per_capita |-> 62000,
        unemployment_rate |-> 41, growth_rate |-> 68, infrastructure_score |-> 78,
        talent_availability |-> 75, cost_of_living |-> 65, regulatory_ease |-> 85,
        political_stability |-> 88, development_tier |-> "GROWING",
        project_opportunities |-> {"MANUFACTURING", "LOGISTICS", "HEALTHCARE"}] >>

RRS_sample_entities ==
    << [entity_id |-> "GOV-TX", entity_type |-> "GOVERNMENT",
        preferred_regions |-> {"TX-AUS", "TX-HOU", "TX-DAL"},
        project_interests |-> {"TECHNOLOGY", "MANUFACTURING", "INFRASTRUCTURE"}],
       [entity_id |-> "COMP-TECH", entity_type |-> "COMPANY",
        preferred_regions |-> {"TX-AUS", "NC-RAL", "CA-SF"},
        project_interests |-> {"TECHNOLOGY", "SMART_CITY", "EDUCATION"}],
       [entity_id |-> "INV-GROWTH", entity_type |-> "INVESTOR",
        preferred_regions |-> {"TN-NAS", "NC-RAL", "GA-ATL"},
        project_interests |-> {"INFRASTRUCTURE", "RENEWABLE_ENERGY", "LOGISTICS"}] >>

\* the local score of calculate_development_tier, in units of 1/200000.  The
\* float sum differs from the exact sum by a rounding error far smaller than
\* one unit; err (-1, 0 or 1) is the side of the exact sum it lies on.
RRS_development_score(r, err) ==
    2 * (r.growth_rate * 2500
         + r.infrastructure_score * 200
         + r.talent_availability * 150
         + (r.gdp_per_capita * 15) \div 100
         + r.political_stability * 150
         + (100 - r.unemployment_rate) * 100)
    + err

\* the if/elif chain of calculate_development_tier
RRS_tier_of_score(score) ==
    IF score >= 170000 THEN "PREMIUM"
    ELSE IF score >= 140000 THEN "ESTABLISHED"
    ELSE IF score >= 110000 THEN "GROWING"
    ELSE "EMERGING"

calculate_development_tier(r, err) == RRS_tier_of_score(RRS_development_score(r, err))

\* the locals economic_compatibility and risk_score of calculate_match_score,
\* in units of 1/10000
RRS_sub_scores(r) ==
    [economic_compatibility |-> r.growth_rate * 30
                                + r.infrastructure_score * 25
                                + r.talent_availability * 25
                                + (100 - r.cost_of_living) * 20,
     risk_score |-> r.political_stability * 40
                    + r.regulatory_ease * 30
                    + (100 - r.unemployment_rate) * 30]

\* calculate_match_score with the overlap counted over the region's projects
calculate_match_score_region_projects(e, r, up) ==
    LET region_preference == IF r.region_id \in e.preferred_regions THEN 100 ELSE 50
        common == Cardinality(r.project_opportunities)
        len == Max(Cardinality(e.project_interests), 1)
        match_score == len * (region_preference * 2500
                              + RRS_sub_scores(r).economic_compatibility * 25
                              + RRS_sub_scores(r).risk_score * 20)
                       + common * 300000
    IN  Round(match_score, 1000 * len, up)

\* calculate_match_score; the result is round(match_score, 3) in thousandths
calculate_match_score(e, r, up) ==
    LET region_preference == IF r.region_id \in e.preferred_regions THEN 100 ELSE 50
        common == Cardinality(e.project_interests \cap r.project_opportunities)
        len == Max(Cardinality(e.project_interests), 1)
        \* match_score * len, in millionths
        match_score == len * (region_preference * 2500
                              + RRS_sub_scores(r).economic_compatibility * 25
                              + RRS_sub_scores(r).risk_score * 20)
                       + common * 300000
    IN  Round(match_score, 1000 * len, up)

\* the members of ProjectType, in declaration order, and their values
ProjectTypeNames ==
    <<"INFRASTRUCTURE", "TECHNOLOGY", "MANUFACTURING", "LOGISTICS", "HEALTHCARE",
      "EDUCATION", "RENEWABLE_ENERGY", "SMART_CITY">>

ProjectTypeValue ==
    [INFRASTRUCTURE |-> "Infrastructure Development", TECHNOLOGY |-> "Technology Hub",
     MANUFACTURING |-> "Manufacturing Center", LOGISTICS |-> "Logistics Hub",
     HEALTHCARE |-> "Healthcare Facility", EDUCATION |-> "Education Center",
     RENEWABLE_ENERGY |-> "Renewable Energy", SMART_CITY |-> "Smart City Initiative"]

\* project_recommendations: the for loop over common_projects
RECURSIVE RRS_project_recommendations(_)
RRS_project_recommendations(projects) ==
    IF projects = << >> THEN << >>
    ELSE LET project == Head(projects)
             rec == CASE project = "TECHNOLOGY" ->
                            <<"Establish technology innovation hub">>
                      [] project = "MANUFACTURING" ->
                            <<"Develop advanced manufacturing facility">>
                      [] project = "INFRASTRUCTURE" ->
                            <<"Invest in critical infrastructure projects">>
                      [] project = "SMART_CITY" ->
                            <<"Implement smart city technologies">>
                      [] OTHER -> << >>
         IN  rec \o RRS_project_recommendations(Tail(projects))

\* generate_match_recommendations: the returned MatchResult.  seed is the set
\* iteration order of the process, t the clock, up the rounded values whose
\* tie goes up.  A compatibility factor is a sequence of strings: the text,
\* then the values joined into it.
generate_match_recommendations(e, r, seed, t, up) ==
    LET match_score == calculate_match_score(e, r, "match_score" \in up)
        \* the members of the set in the order this process iterates them
        common_projects ==
            SelectSeq(seed, LAMBDA p : p \in e.project_interests \cap r.project_opportunities)
        compatibility_factors ==
            (IF r.region_id \in e.preferred_regions
             THEN << <<"Region in preferred locations">> >> ELSE << >>)
            \o (IF common_projects # << >>
                THEN << <<"Shared project interests">>
                        \o [i \in 1..Len(common_projects) |->
                               ProjectTypeValue[common_projects[i]]] >>
                ELSE << >>)
            \o (IF r.growth_rate > 50 THEN << <<"High growth potential">> >> ELSE << >>)
            \o (IF r.infrastructure_score > 80
                THEN << <<"Strong infrastructure">> >> ELSE << >>)
        risk_assessment ==
            [overall_risk |-> IF match_score > 700 THEN "Low"
                              ELSE IF match_score > 500 THEN "Medium" ELSE "High",
             political_risk |-> IF r.political_stability > 80 THEN "Low" ELSE "Medium",
             economic_risk |-> IF r.growth_rate > 50 THEN "Low" ELSE "Medium",
             infrastructure_risk |-> IF r.infrastructure_score > 80 THEN "Low"
                                     ELSE "Medium",
             mitigation_strategies |-> <<"Establish local partnerships",
                                         "Conduct thorough due diligence",
                                         "Develop contingency plans">>]
        \* int(24 / (base_roi / 100)) with base_roi = match_score * 25: the
        \* quotient 96000 / match_score truncated toward zero.  When the
        \* quotient is a whole number the float quotient may fall just below
        \* it; "break_even_months" \in up says that it does not.
        break_even_months ==
            IF match_score > 0
            THEN IF 96000 % match_score = 0 /\ "break_even_months" \notin up
                 THEN 96000 \div match_score - 1
                 ELSE 96000 \div match_score
            ELSE 0 - (96000 \div (0 - match_score))
        \* projected_roi in tenths of a percent: match_score * 25 / 100
        roi_projection ==
            [projected_roi |-> Round(match_score, 4, "projected_roi" \in up),
             time_horizon |-> "3-5 years",
             break_even_months |-> break_even_months,
             confidence_level |-> IF match_score > 700 THEN "High" ELSE "Medium"]
    IN  IF match_score = 0
        THEN [status |-> "ZeroDivisionError"]
        ELSE [status |-> "ok",
              match_id |-> <<"MATCH", e.entity_id, r.region_id, t>>,
              entity_id |-> e.entity_id,
              region_id |-> r.region_id,
              match_score |-> match_score,
              compatibility_factors |-> compatibility_factors,
              project_recommendations |-> RRS_project_recommendations(common_projects),
              risk_assessment |-> risk_assessment,
              roi_projection |-> roi_projection,
              timeline |->
                  "6-12 months for initial setup, 2-3 years for full implementation",
              next_steps |-> <<"Schedule initial meeting with regional representatives",
                               "Conduct site visit and feasibility study",
                               "Develop detailed project proposal",
                               "Negotiate terms and incentives",
                               "Begin implementation planning">>,
              created_at |-> t]

\* the values generate_match_recommendations rounds or truncates that lie on
\* a tie for some direction of the others
RRS_ties(e, r) ==
    {n \in {"match_score", "projected_roi", "break_even_months"} :
        \E up \in SUBSET ({"match_score", "projected_roi", "break_even_months"} \ {n}) :
           generate_match_recommendations(e, r, ProjectTypeNames, 0, up \cup {n})
           # generate_match_recommendations(e, r, ProjectTypeNames, 0, up)}

\* list.sort(key=lambda x: x.match_score, reverse=True): a stable sort, an
\* element goes behind every element whose key is at least its own
RECURSIVE SortByMatchScoreUnstable(_)
SortByMatchScoreUnstable(matches) ==
    IF matches = << >> THEN << >>
    ELSE LET sorted == SortByMatchScoreUnstable(SubSeq(matches, 1, Len(matches) - 1))
             x == matches[Len(matches)]
             k == Cardinality({i \in 1..Len(sorted) :
                                  sorted[i].match_score > x.match_score})
         IN  SubSeq(sorted, 1, k) \o <<x>> \o SubSeq(sorted, k + 1, Len(sorted))

RECURSIVE SortByMatchScore(_)
SortByMatchScore(matches) ==
    IF matches = << >> THEN << >>
    ELSE LET sorted == SortByMatchScore(SubSeq(matches, 1, Len(matches) - 1))
             x == matches[Len(matches)]
             k == Cardinality({i \in 1..Len(sorted) :
                                  sorted[i].match_score >= x.match_score})
         IN  SubSeq(sorted, 1, k) \o <<x>> \o SubSeq(sorted, k + 1, Len(sorted))

\* the slice list[:limit]
SliceTo(list, limit) ==
    IF limit >= 0 THEN SubSeq(list, 1, Min(limit, Len(list)))
    ELSE SubSeq(list, 1, Max(Len(list) + limit, 0))

\* find_best_matches: [status, matches]; ups[i] are the tie directions of the
\* match with the i-th region
find_best_matches(entities, regions, entity_id, limit, seed, t, ups) ==
    IF \A i \in 1..Len(entities) : entities[i].entity_id # entity_id
    THEN [status |-> "ok", matches |-> << >>]
    ELSE LET e == entities[CHOOSE i \in 1..Len(entities) :
                              entities[i].entity_id = entity_id]
             matches == [i \in 1..Len(regions) |->
                            generate_match_recommendations(e, regions[i], seed, t, ups[i])]
         IN  IF \E i \in 1..Len(matches) : matches[i].status # "ok"
             THEN [status |-> "ZeroDivisionError"]
             ELSE [status |-> "ok",
                   matches |-> SliceTo(SortByMatchScore(matches), limit)]

(***************************************************************************)
(* revolutionary_system.py : RevolutionarySystem                           *)
(* A registry is a sequence of entries in dict insertion order; scores are *)
(* kept in units of 1/60000 so that (base + bonus) * multiplier is an      *)
(* integer for every interest list of up to 6 entries.                     *)
(***************************************************************************)
RS_regions ==
    << [region_id |-> "TX-AUS", tier |-> "PREMIUM", population |-> 2500000,
        growth_rate |-> 85, projects |-> {"Technology", "Smart City", "Education"}],
       [region_id |-> "NC-RAL", tier |-> "ESTABLISHED", population |-> 1800000,
        growth_rate |-> 72, projects |-> {"Technology", "Healthcare", "Education"}],
       [region_id |-> "TN-NAS", tier |-> "GROWING", population |-> 2100000,
        growth_rate |-> 68, projects |-> {"Manufacturing", "Logistics", "Healthcare"}] >>

RS_entities ==
    << [entity_id |-> "GOV-TX", interests |-> {"Technology", "Manufacturing"}],
       [entity_id |-> "COMP-TECH", interests |-> {"Technology", "Smart City"}],
       [entity_id |-> "INV-GROWTH", interests |-> {"Infrastructure", "Renewable Energy"}] >>

\* dict.get(key, {}) on a registry: the entry, or the empty dict
RS_lookup(dict, idField, id) ==
    LET hits == {i \in 1..Len(dict) : dict[i][idField] = id}
    IN  IF hits = {} THEN [found |-> FALSE]
        ELSE [found |-> TRUE, entry |-> dict[CHOOSE i \in hits : TRUE]]

\* tier_multiplier ... .get(region.get('tier'), 1.0), in tenths
RS_tier_multiplier(tier) ==
    CASE tier = "PREMIUM" -> 12
      [] tier = "ESTABLISHED" -> 10
      [] tier = "GROWING" -> 9
      [] tier = "EMERGING" -> 8
      [] OTHER -> 10

\* calculate_match, in units of 1/60000
calculate_match(entities, regions, entity_id, region_id) ==
    LET e == RS_lookup(entities, "entity_id", entity_id)
        r == RS_lookup(regions, "region_id", region_id)
    IN  IF ~e.found \/ ~r.found THEN 0
        ELSE LET common_interests == Cardinality(e.entry.interests \cap r.entry.projects)
                 len == Max(Cardinality(e.entry.interests), 1)
                 \* (base_score + growth_bonus) * len, in hundredths
                 sum == 100 * common_interests + r.entry.growth_rate * len
                 final_score == (sum * RS_tier_multiplier(r.entry.tier) * 60) \div len
             IN  Min(60000, final_score)

\* the dict find_matches appends for a region whose score (1/60000) passed
\* the filter: match_score in thousandths, roi_projection in tenths of a
\* percent
RS_match_entry(r, score, up) ==
    [region_id |-> r.region_id,
     match_score |-> Round(score, 60, "match_score" \in up),
     tier |-> [EMERGING |-> "Emerging", GROWING |-> "Growing",
               ESTABLISHED |-> "Established", PREMIUM |-> "Premium"][r.tier],
     projects |-> r.projects,
     roi_projection |-> Round(score, 240, "roi_projection" \in up),
     risk_level |-> IF score > 42000 THEN "Low"
                    ELSE IF score > 30000 THEN "Medium" ELSE "High"]

\* the values RS_match_entry rounds that lie on a tie
RS_ties(score) ==
    (IF IsTie(score, 60) THEN {"match_score"} ELSE {})
    \cup (IF IsTie(score, 240) THEN {"roi_projection"} ELSE {})

\* find_matches: the list of the regions scoring above 0.3, sorted and cut
find_matches(entities, regions, entity_id, limit, ups) ==
    LET score(i) == calculate_match(entities, regions, entity_id, regions[i].region_id)
        kept == SelectSeq([i \in 1..Len(regions) |-> i], LAMBDA i : score(i) > 18000)
        matches == [k \in 1..Len(kept) |->
                       RS_match_entry(regions[kept[k]], score(kept[k]), ups[kept[k]])]
    IN  SliceTo(SortByMatchScore(matches), limit)

(***************************************************************************)
(* app.py : the endpoint POST /api/v1/analyze/investment                   *)
(* request_data is a JSON object: a function from some of the keys to      *)
(* values.                                                                 *)
(***************************************************************************)
\* the second argument of each request_data.get(...), lines 89-125; a list
\* valued default is kept as the truth value of the list
App_defaults ==
    [city |-> "Austin", country |-> "USA", region |-> "Texas", population |-> 950000,
     gdp_per_capita |-> 65000, infrastructure_score |-> 85, talent_availability |-> 80,
     cost_of_living |-> 65, tax_rate |-> 25, regulatory_ease |-> 75, market_access |-> 80,
     political_stability |-> 85, growth_rate |-> 8, inflation_rate |-> 3,
     currency_stability |-> 95, digital_infrastructure |-> 90,
     supply_chain_efficiency |-> 75, innovation_index |-> 85,
     sustainability_score |-> 70, geopolitical_risk |-> 20, market_volatility |-> 35,
     company_type |-> "technology", investment_size |-> "large",
     preferred_region |-> "North America", industry_focus |-> "technology",
     risk_tolerance |-> "medium", timeline |-> "3-5 years",
     technology_requirements |-> TRUE, supply_chain_needs |-> TRUE,
     sustainability_goals |-> TRUE, digital_transformation_needs |-> TRUE,
     market_expansion_targets |-> TRUE]

\* analyze_investment: the response [code, success, ...].  CompanyProfile is
\* the dataclass of investment_algorithm.py (lines 64-78): constructing it
\* without one of its fields raises TypeError, which the handler's except
\* turns into a 500 response like any exception of the algorithm.
analyze_investment(request_data, up) ==
    LET get(k) == IF k \in DOMAIN request_data THEN request_data[k] ELSE App_defaults[k]
        fields == {"company_type", "investment_size", "preferred_region",
                   "industry_focus", "risk_tolerance", "timeline",
                   "technology_requirements", "supply_chain_needs",
                   "sustainability_goals", "digital_transformation_needs",
                   "market_expansion_targets", "competitive_advantages"}
        keywords == {"company_type", "investment_size", "preferred_region",
                     "industry_focus", "risk_tolerance", "timeline",
                     "technology_requirements", "supply_chain_needs",
                     "sustainability_goals", "digital_transformation_needs",
                     "market_expansion_targets"}
        regional_data_ == [f \in DOMAIN App_defaults \ (keywords \cup {"city", "country"})
                              |-> get(f)]
        company_profile_ == [f \in {"company_type", "investment_size", "industry_focus",
                                    "risk_tolerance", "timeline", "sustainability_goals"}
                                |-> get(f)]
        analysis_result == Adv_calculate_investment_score(regional_data_, company_profile_,
                                                          up)
    IN  IF DOMAIN request_data = {}
        THEN [code |-> 400, success |-> FALSE, error |-> "No data provided",
              message |-> "Please provide investment parameters"]
        ELSE IF fields \ keywords # {}
        THEN [code |-> 500, success |-> FALSE, error |-> "TypeError",
              message |-> "Analysis failed"]
        ELSE IF analysis_result.status = "raised"
        THEN [code |-> 500, success |-> FALSE, error |-> analysis_result.exception,
              message |-> "Analysis failed"]
        ELSE [code |-> 200, success |-> TRUE, analysis_result |-> analysis_result,
              algorithm_used |-> "BWGA Nexus Advanced Algorithm"]

(***************************************************************************)
(* Input spaces.                                                           *)
(***************************************************************************)
\* the region and company of create_sample_data (enhanced_investment_algorithm.py)
SampleRegion ==
    [region |-> "Texas", population |-> 950000, gdp_per_capita |-> 65000,
     infrastructure_score |-> 85, talent_availability |-> 80, cost_of_living |-> 65,
     tax_rate |-> 25, regulatory_ease |-> 75, market_access |-> 80,
     political_stability |-> 85, growth_rate |-> 8, inflation_rate |-> 3,
     currency_stability |-> 95, digital_infrastructure |-> 90,
     supply_chain_efficiency |-> 75, innovation_index |-> 85,
     sustainability_score |-> 70, geopolitical_risk |-> 20, market_volatility |-> 35]

SampleCompany ==
    [company_type |-> "tech", investment_size |-> "large", industry_focus |-> "technology",
     risk_tolerance |-> "medium", timeline |-> "3-5 years", sustainability_goals |-> TRUE]

MetricFields ==
    {"infrastructure_score", "talent_availability", "cost_of_living", "tax_rate",
     "regulatory_ease", "market_access", "political_stability", "growth_rate",
     "inflation_rate", "currency_stability", "digital_infrastructure",
     "supply_chain_efficiency", "innovation_index", "sustainability_score",
     "geopolitical_risk", "market_volatility"}

LowerIsBetter ==
    {"cost_of_living", "tax_rate", "inflation_rate", "geopolitical_risk", "market_volatility"}

\* the least and the most favourable region
WorstRegion ==
    [f \in MetricFields |-> IF f \in LowerIsBetter THEN 100 ELSE 0]
    @@ [region |-> "other", population |-> 50000, gdp_per_capita |-> 30000]

BestRegion ==
    [f \in MetricFields |-> IF f \in LowerIsBetter THEN 0 ELSE 100]
    @@ [region |-> "asia-pacific", population |-> 8500000, gdp_per_capita |-> 3500]

BaseRegions == {SampleRegion, WorstRegion, BestRegion}

\* the thresholds the code compares each metric with
FieldThresholds(f) ==
    CASE f = "infrastructure_score" -> {40, 80}
      [] f = "cost_of_living" -> {30, 70, 80}
      [] f = "tax_rate" -> {20, 40}
      [] f = "regulatory_ease" -> {30, 40, 70}
      [] f = "market_access" -> {50}
      [] f = "political_stability" -> {40, 50, 60, 80}
      [] f = "inflation_rate" -> {2, 8, 10}
      [] f = "currency_stability" -> {50}
      [] f = "geopolitical_risk" -> {20, 60}
      [] f = "market_volatility" -> {70}
      [] OTHER -> {}

\* a uniform grid over [0,1] and the values next to each threshold
MetricGrid(f) ==
    {(k * 100) \div GridN : k \in 0..GridN}
    \cup UNION {{t - 1, t, t + 1} : t \in FieldThresholds(f)}

\* every base region, and every base region with one field replaced
RegionInputs ==
    BaseRegions
    \cup UNION {{[b EXCEPT ![f] = v] : b \in BaseRegions, v \in MetricGrid(f)} :
                   f \in MetricFields}
    \cup {[b EXCEPT !.growth_rate = 0 - 10] : b \in BaseRegions}
    \cup {[b EXCEPT !.population = v] : b \in BaseRegions,
                                          v \in {50000, 950000, 2000000, 8500000}}
    \cup {[b EXCEPT !.gdp_per_capita = v] : b \in BaseRegions, v \in {3500, 30000, 65000}}
    \cup {[b EXCEPT !.region = v] : b \in BaseRegions,
                                    v \in {"asia-pacific", "europe", "americas", "Texas"}}

CompanyInputs ==
    [company_type : {"tech", "manufacturing", "services"},
     investment_size : {"small", "medium", "large", "enterprise", "mega"},
     industry_focus : {"technology", "manufacturing", "logistics", "finance",
                       "healthcare", "electronics"},
     risk_tolerance : {"low", "medium", "high", "aggressive"},
     timeline : {"long-term", "3-5 years"},
     sustainability_goals : BOOLEAN]

\* one company per industry, and the sample company in each size; "electronics",
\* "mega" and "aggressive" are values none of the lookup tables has
KeyCompanies ==
    {[SampleCompany EXCEPT !.industry_focus = i] :
        i \in {"technology", "manufacturing", "logistics", "finance", "healthcare",
               "electronics"}}
    \cup {[SampleCompany EXCEPT !.investment_size = z] :
             z \in {"small", "medium", "large", "enterprise", "mega"}}
    \cup {[SampleCompany EXCEPT !.risk_tolerance = "aggressive"]}

\* the <<region, company>> pairs the scoring engines are run on: every region
\* with the key companies, every company with the base regions, and a region
\* the enhanced engine scores just below 85
ScoreInputs ==
    (RegionInputs \X KeyCompanies) \cup (BaseRegions \X CompanyInputs)
    \cup {<<[SampleRegion EXCEPT !.infrastructure_score = 90, !.regulatory_ease = 95],
             SampleCompany>>}

\* regions for the risk assessments: every combination of the six metrics the
\* checks read, each below, at and beyond its threshold
RiskRegionInputs ==
    {[SampleRegion EXCEPT !.currency_stability = cs, !.political_stability = ps,
                          !.regulatory_ease = re, !.market_access = ma,
                          !.inflation_rate = ir, !.geopolitical_risk = gr] :
        cs \in {30, 50, 95}, ps \in {30, 60, 85}, re \in {20, 40, 75},
        ma \in {30, 50, 80}, ir \in {3, 9, 12}, gr \in {20, 60, 90}}

\* composite scores from 0 to MaxScore points in steps of 0.005
ScoreArgs == {k * 100 : k \in 0..(MaxScore * 200)}

\* ROI values of the bucketed variant, -MaxRoi% .. MaxRoi% in steps of 0.25,
\* in hundredths of a percent
AdvRoiArgs == {k * 25 : k \in (0 - MaxRoi * 4)..(MaxRoi * 4)}

\* ROI values of the numeric-months variant, about -MaxRoi% .. MaxRoi% in
\* steps of 0.06%, and one tiny positive value, in units of 6/10^8 percent
EnhRoiArgs == {k * 1000000 : k \in (0 - MaxRoi * 13)..(MaxRoi * 13)} \cup {10}

EmptyDict == [f \in {} |-> [parses |-> TRUE, v |-> 0]]

FlatVectors ==
    LET bases == {Flat_defaults,
                  [f \in Flat_fields |-> 0],
                  [f \in Flat_fields |-> 100],
                  [f \in Flat_fields |->
                      IF f \in {"cost_of_living", "risk_factor", "geopolitical_risk",
                                "market_volatility"} THEN 0 ELSE 100],
                  [f \in Flat_fields |->
                      IF f \in {"cost_of_living", "risk_factor", "geopolitical_risk",
                                "market_volatility"} THEN 100 ELSE 0]}
    IN  bases \cup {[b EXCEPT ![f] = (k * 100) \div GridN] :
                       b \in bases, f \in Flat_fields, k \in 0..GridN}

\* form data: every vector with all fields supplied, and the default vector
\* with any set of up to two fields left out or one field unparseable
FlatInputs ==
    {[f \in Flat_fields |-> [parses |-> TRUE, v |-> x[f]]] : x \in FlatVectors}
    \cup {[f \in Flat_fields \ {g, h} |-> [parses |-> TRUE, v |-> 85]] :
             g \in Flat_fields, h \in Flat_fields}
    \cup {[f \in Flat_fields |-> [parses |-> f # g, v |-> 20]] : g \in Flat_fields}
    \cup {EmptyDict}

\* regional profiles: the seeded ones, and a profile with every metric at its
\* best whose growth and unemployment sweep their ranges
RRS_top_region ==
    [region_id |-> "TOP", population |-> 1000000, gdp_per_capita |-> 100000,
     unemployment_rate |-> 0, growth_rate |-> 0, infrastructure_score |-> 100,
     talent_availability |-> 100, cost_of_living |-> 0, regulatory_ease |-> 100,
     political_stability |-> 100, development_tier |-> "PREMIUM",
     project_opportunities |-> {"TECHNOLOGY", "SMART_CITY", "EDUCATION"}]

RRS_match_regions ==
    {RRS_sample_regions[i] : i \in 1..Len(RRS_sample_regions)}
    \cup {[b EXCEPT !.growth_rate = g * 10, !.unemployment_rate = u * 10] :
             b \in {RRS_top_region, RRS_sample_regions[1]},
             g \in 0..MaxGrowth, u \in 0..MaxUnemployment}

RRS_match_entities ==
    {RRS_sample_entities[i] : i \in 1..Len(RRS_sample_entities)}
    \cup {[entity_id |-> "NEW-1", preferred_regions |-> {}, project_interests |-> {}],
          [entity_id |-> "NEW-2", preferred_regions |-> {"TOP"},
           project_interests |-> {"TECHNOLOGY", "SMART_CITY", "EDUCATION"}],
          [entity_id |-> "NEW-3", preferred_regions |-> {"TOP"},
           project_interests |-> {"LOGISTICS"}]}

\* profiles whose development score sweeps the three thresholds in steps of
\* 0.001: growth 0.0 .. 0.5, unemployment 0.0 .. 10.0, three infrastructures
RRS_tier_regions ==
    {RRS_sample_regions[i] : i \in 1..Len(RRS_sample_regions)}
    \cup {[RRS_top_region EXCEPT !.growth_rate = g, !.unemployment_rate = u,
                                 !.infrastructure_score = (k * 100) \div GridN] :
             g \in 0..5, u \in 0..100, k \in 0..GridN}

\* regions registries of RevolutionarySystem: the seeded one with the growth
\* rate and the tier of one entry replaced
RS_region_registries ==
    {RS_regions}
    \cup {[RS_regions EXCEPT ![i] = [@ EXCEPT !.growth_rate = g * 10, !.tier = t]] :
             i \in 1..Len(RS_regions), g \in 0..MaxGrowth,
             t \in {"PREMIUM", "ESTABLISHED", "GROWING", "EMERGING"}}

\* registries of RevolutionaryRegionalSystem: the empty one and every list of
\* one to three profiles with distinct ids, the profiles being the seeded
\* ones, a second Austin under another id, and the best profile
RRS_registries ==
    LET profiles == {RRS_sample_regions[i] : i \in 1..Len(RRS_sample_regions)}
                    \cup {[RRS_sample_regions[1] EXCEPT !.region_id = "TX-AU2"],
                          [RRS_top_region EXCEPT !.growth_rate = 100]}
    IN  {<< >>}
        \cup {regs \in UNION {[1..n -> profiles] : n \in 1..3} :
                 \A i \in 1..Len(regs), j \in 1..Len(regs) :
                    i # j => regs[i].region_id # regs[j].region_id}

\* the entities registry: the seeded entities and the added ones
RRS_entities ==
    RRS_sample_entities
    \o <<[entity_id |-> "NEW-1", preferred_regions |-> {}, project_interests |-> {}],
         [entity_id |-> "NEW-2", preferred_regions |-> {"TOP"},
          project_interests |-> {"TECHNOLOGY", "SMART_CITY", "EDUCATION"}]>>

\* the two set iteration orders explored: every pair of members appears in
\* both relative orders
HashSeeds ==
    {ProjectTypeNames,
     [i \in 1..Len(ProjectTypeNames) |-> ProjectTypeNames[Len(ProjectTypeNames) + 1 - i]]}

Idle ==
    /\ pc = "idle"
    /\ op = "none"
    /\ regional_data = SampleRegion
    /\ company_profile = SampleCompany
    /\ arg = 0
    /\ data = EmptyDict
    /\ entity = RRS_sample_entities[1]
    /\ region = RRS_sample_regions[1]
    /\ registry = [entities |-> RS_entities, regions |-> RS_regions]
    /\ ids = <<"", "">>
    /\ result = [status |-> "none"]

(***************************************************************************)
(* real_time_data.py : RealTimeDataCollector                               *)
(* A dict is a function from its keys; times are in seconds.               *)
(***************************************************************************)
\* __init__: the fields get_market_data uses; key is the value of the
\* environment variable ALPHA_VANTAGE_API_KEY, 'demo' when it is not set
RealTimeDataCollector(key) ==
    [alpha_vantage_key |-> key,
     yahoo_finance_enabled |-> TRUE,
     market_data_cache |-> [s \in {} |-> 0],
     last_update |-> [k \in {} |-> 0],
     cache_expiry |-> 300]

\* get_market_data(symbols) called at current_time: the collector after the
\* call, the returned dict, and whether the call went to the data sources.
\* source is what the outside does during the call: yfinance says whether the
\* import succeeds, yahoo and alpha are the symbols those sources deliver (a
\* fetch that raises is skipped by the except inside the loop).
get_market_data(self, symbols, current_time, source) ==
    LET last == IF "market_data" \in DOMAIN self.last_update
                THEN self.last_update["market_data"] ELSE 0
        entry(s, provider) == [symbol |-> s, provider |-> provider,
                               timestamp |-> current_time]
        yahoo == IF self.yahoo_finance_enabled
                 THEN [s \in symbols \cap source.yahoo |-> entry(s, "yahoo")]
                 ELSE [s \in {} |-> 0]
        market_data == IF DOMAIN yahoo = {} /\ self.alpha_vantage_key # "demo"
                       THEN [s \in symbols \cap source.alpha |-> entry(s, "alpha")]
                       ELSE yahoo
    IN  IF current_time - last < self.cache_expiry
        THEN [self |-> self, result |-> self.market_data_cache, queried |-> FALSE]
        ELSE IF self.yahoo_finance_enabled /\ source.yfinance = "missing"
        THEN [self |-> self, result |-> [s \in {} |-> 0], queried |-> TRUE]
        ELSE [self |-> [self EXCEPT !.market_data_cache = market_data,
                                    !.last_update =
                                       [k \in DOMAIN self.last_update \cup {"market_data"}
                                          |-> IF k = "market_data" THEN current_time
                                              ELSE self.last_update[k]]],
              result |-> market_data,
              queried |-> TRUE]

\* a thread that handles no request
NoRequest ==
    [kind |-> "none", id |-> "", at |-> 0, done |-> FALSE, local |-> <<>>,
     response |-> <<>>]

Init ==
    /\ Idle
    /\ hashseed \in HashSeeds
    /\ now = 0
    /\ previous = <<>>
    /\ system = [regions |-> RRS_sample_regions, entities |-> RRS_sample_entities,
                 matches |-> <<>>]
    /\ requests = [t \in 1..NThreads |-> NoRequest]
    /\ collector = RealTimeDataCollector("demo")

(***************************************************************************)
(* Operations.  Each one is a complete call; Return hands the outcome back *)
(* to the caller and makes the engine ready for the next call.             *)
(***************************************************************************)
ScoreAdvanced ==
    /\ pc = "idle"
    /\ \E in \in ScoreInputs :
         \E up \in SUBSET Adv_ties(in[1], in[2]) :
          /\ regional_data' = in[1]
          /\ company_profile' = in[2]
          /\ result' = Adv_calculate_investment_score(in[1], in[2], up)
    /\ pc' = "done"
    /\ op' = "ScoreAdvanced"
    /\ UNCHANGED <<arg, data, entity, region, registry, ids>>
    /\ UNCHANGED procVars

ScoreEnhanced ==
    /\ pc = "idle"
    /\ \E in \in ScoreInputs :
         \E up \in SUBSET Enh_ties(in[1], in[2]) :
          /\ regional_data' = in[1]
          /\ company_profile' = in[2]
          /\ result' = Enh_calculate_investment_score(in[1], in[2], up)
    /\ pc' = "done"
    /\ op' = "ScoreEnhanced"
    /\ UNCHANGED <<arg, data, entity, region, registry, ids>>
    /\ UNCHANGED procVars

ScoreFlat ==
    /\ pc = "idle"
    /\ \E d \in FlatInputs, up \in BOOLEAN :
          /\ data' = d
          /\ result' = advanced_investment_algorithm(d, up)
    /\ pc' = "done"
    /\ op' = "ScoreFlat"
    /\ UNCHANGED <<regional_data, company_profile, arg, entity, region, registry, ids>>
    /\ UNCHANGED procVars

AdvDetermineTier ==
    /\ pc = "idle"
    /\ \E score \in ScoreArgs :
          /\ arg' = score
          /\ result' = [status |-> "ok", tier |-> Adv_determine_investment_tier(score)]
    /\ pc' = "done"
    /\ op' = "AdvDetermineTier"
    /\ UNCHANGED <<regional_data, company_profile, data, entity, region, registry, ids>>
    /\ UNCHANGED procVars

EnhDetermineTier ==
    /\ pc = "idle"
    /\ \E score \in ScoreArgs :
          /\ arg' = score
          /\ result' = [status |-> "ok", tier |-> Enh_determine_investment_tier(score)]
    /\ pc' = "done"
    /\ op' = "EnhDetermineTier"
    /\ UNCHANGED <<regional_data, company_profile, data, entity, region, registry, ids>>
    /\ UNCHANGED procVars

DevelopmentTier ==
    /\ pc = "idle"
    /\ \E r \in RRS_tier_regions, err \in {0 - 1, 0, 1} :
          /\ region' = r
          /\ result' = [status |-> "ok",
                        score |-> RRS_development_score(r, err),
                        tier |-> calculate_development_tier(r, err)]
    /\ pc' = "done"
    /\ op' = "DevelopmentTier"
    /\ UNCHANGED <<regional_data, company_profile, arg, data, entity, registry, ids>>
    /\ UNCHANGED procVars

AdvRiskAssessment ==
    /\ pc = "idle"
    /\ \E rd \in RiskRegionInputs :
          /\ regional_data' = rd
          /\ result' = [status |-> "ok",
                        risk_assessment |-> Adv_generate_risk_assessment(rd, SampleCompany)]
    /\ pc' = "done"
    /\ op' = "AdvRiskAssessment"
    /\ UNCHANGED <<company_profile, arg, data, entity, region, registry, ids>>
    /\ UNCHANGED procVars

EnhRiskAssessment ==
    /\ pc = "idle"
    /\ \E rd \in RiskRegionInputs :
          /\ regional_data' = rd
          /\ result' = [status |-> "ok",
                        risk_assessment |-> Enh_generate_risk_assessment(rd, SampleCompany)]
    /\ pc' = "done"
    /\ op' = "EnhRiskAssessment"
    /\ UNCHANGED <<company_profile, arg, data, entity, region, registry, ids>>
    /\ UNCHANGED procVars

AdvBreakEven ==
    /\ pc = "idle"
    /\ \E roi \in AdvRoiArgs :
          /\ arg' = roi
          /\ result' = [status |-> "ok",
                        break_even |-> Adv_calculate_break_even_time(roi)]
    /\ pc' = "done"
    /\ op' = "AdvBreakEven"
    /\ UNCHANGED <<regional_data, company_profile, data, entity, region, registry, ids>>
    /\ UNCHANGED procVars

EnhBreakEven ==
    /\ pc = "idle"
    /\ \E roi \in EnhRoiArgs :
          /\ arg' = roi
          /\ result' = [status |-> "ok",
                        break_even |-> Enh_calculate_break_even_time(roi)]
    /\ pc' = "done"
    /\ op' = "EnhBreakEven"
    /\ UNCHANGED <<regional_data, company_profile, data, entity, region, registry, ids>>
    /\ UNCHANGED procVars

MatchScore ==
    /\ pc = "idle"
    /\ \E e \in RRS_match_entities, r \in RRS_match_regions, up \in BOOLEAN :
          /\ entity' = e
          /\ region' = r
          /\ result' = [status |-> "ok", match_score |-> calculate_match_score(e, r, up)]
    /\ pc' = "done"
    /\ op' = "MatchScore"
    /\ UNCHANGED <<regional_data, company_profile, arg, data, registry, ids>>
    /\ UNCHANGED procVars

CalculateMatch ==
    /\ pc = "idle"
    /\ \E regs \in RS_region_registries,
          entity_id \in {"GOV-TX", "COMP-TECH", "INV-GROWTH", "UNKNOWN"},
          region_id \in {"TX-AUS", "NC-RAL", "TN-NAS", "UNKNOWN"} :
          /\ registry' = [entities |-> RS_entities, regions |-> regs]
          /\ ids' = <<entity_id, region_id>>
          /\ result' = [status |-> "ok",
                        score |-> calculate_match(RS_entities, regs, entity_id, region_id)]
    /\ pc' = "done"
    /\ op' = "CalculateMatch"
    /\ UNCHANGED <<regional_data, company_profile, arg, data, entity, region>>
    /\ UNCHANGED procVars

FindBestMatches ==
    /\ pc = "idle"
    /\ \E regs \in RRS_registries, limit \in 0..MaxLimit,
          entity_id \in {"GOV-TX", "COMP-TECH", "INV-GROWTH", "NEW-1", "NEW-2", "UNKNOWN"} :
         \E ups \in TieChoices([i \in 1..Len(regs) |->
                                  LET e == RS_lookup(RRS_entities, "entity_id",
                                                     entity_id)
                                  IN  IF e.found THEN RRS_ties(e.entry, regs[i])
                                      ELSE {}]) :
          /\ registry' = [entities |-> RRS_entities, regions |-> regs]
          /\ ids' = <<entity_id, "">>
          /\ arg' = limit
          /\ result' = find_best_matches(RRS_entities, regs, entity_id, limit,
                                         hashseed, now, ups)
    /\ pc' = "done"
    /\ op' = "FindBestMatches"
    /\ UNCHANGED <<regional_data, company_profile, data, entity, region>>
    /\ UNCHANGED procVars

FindMatches ==
    /\ pc = "idle"
    /\ \E regs \in RS_region_registries,
          entity_id \in {"GOV-TX", "COMP-TECH", "INV-GROWTH", "UNKNOWN"},
          limit \in 0..MaxLimit :
         \E ups \in TieChoices([i \in 1..Len(regs) |->
                                  RS_ties(calculate_match(RS_entities, regs, entity_id,
                                                          regs[i].region_id))]) :
          /\ registry' = [entities |-> RS_entities, regions |-> regs]
          /\ ids' = <<entity_id, "">>
          /\ arg' = limit
          /\ result' = [status |-> "ok",
                        matches |-> find_matches(RS_entities, regs, entity_id, limit, ups)]
    /\ pc' = "done"
    /\ op' = "FindMatches"
    /\ UNCHANGED <<regional_data, company_profile, data, entity, region>>
    /\ UNCHANGED procVars

\* requests: the empty object, and the default of every key with any one key
\* left out, or with one metric replaced
AnalyzeInvestment ==
    /\ pc = "idle"
    /\ \E request_data \in
            {[k \in {} |-> 0], App_defaults}
            \cup {[k \in DOMAIN App_defaults \ {g} |-> App_defaults[k]] :
                     g \in DOMAIN App_defaults}
            \cup {[App_defaults EXCEPT ![f] = (k * 100) \div GridN] :
                     f \in MetricFields, k \in 0..GridN} :
          /\ data' = request_data
          /\ result' = analyze_investment(request_data, {})
    /\ pc' = "done"
    /\ op' = "AnalyzeInvestment"
    /\ UNCHANGED <<regional_data, company_profile, arg, entity, region, registry, ids>>
    /\ UNCHANGED procVars

Return ==
    /\ pc = "done"
    /\ pc' = "idle"
    /\ op' = "none"
    /\ regional_data' = SampleRegion
    /\ company_profile' = SampleCompany
    /\ arg' = 0
    /\ data' = EmptyDict
    /\ entity' = RRS_sample_entities[1]
    /\ region' = RRS_sample_regions[1]
    /\ registry' = [entities |-> RS_entities, regions |-> RS_regions]
    /\ ids' = <<"", "">>
    /\ result' = [status |-> "none"]
    /\ UNCHANGED procVars

(***************************************************************************)
(* Repeated calls.  The service makes a call, logs it, and makes another;  *)
(* between two calls the interpreter may be started again (a redeployment, *)
(* or a second worker process answering the next request), which draws a   *)
(* new string hash seed.  Float arithmetic is the same in every process:   *)
(* a rounding falls the same way each time the same value is rounded.      *)
(***************************************************************************)

\* _generate_market_insights: the numbers its strings format, in percent
Enh_generate_market_insights(rd) ==
    [market_size |-> rd.population,
     growth_trend |-> rd.growth_rate,
     competitive_landscape |-> "Moderate competition",
     market_maturity |-> IF rd.gdp_per_capita < 20000 THEN "Developing market"
                         ELSE "Mature market",
     key_advantages |-> <<100 - rd.cost_of_living, rd.talent_availability,
                          rd.infrastructure_score>>]

RepeatScoreInputs == {SampleRegion} \X KeyCompanies

\* the entities with the seeded regions and with a region in a slump
\* (unemployment 25%, growth -8% or -10%)
RepeatMatchInputs ==
    {<<RRS_entities[i], RRS_sample_regions[j]>> :
        i \in 1..Len(RRS_entities), j \in 1..Len(RRS_sample_regions)}
    \cup {<<RRS_entities[i],
            [RRS_sample_regions[1] EXCEPT
                !.region_id = "XX-LOW", !.growth_rate = g, !.infrastructure_score = 40,
                !.talent_availability = 0, !.cost_of_living = 100,
                !.political_stability = 0, !.regulatory_ease = 0,
                !.unemployment_rate = 250, !.project_opportunities = {}]>> :
             i \in 1..Len(RRS_entities), g \in {0 - 80, 0 - 100}}

CallEnhanced ==
    /\ pc = "idle"
    /\ Len(previous) < MaxCalls
    /\ \E in \in RepeatScoreInputs :
         \E up \in SUBSET Enh_ties(in[1], in[2]) :
          /\ \A i \in 1..Len(previous) :
                (previous[i].op = "CallEnhanced" /\ previous[i].inputs = in)
                => previous[i].up = up
          /\ regional_data' = in[1]
          /\ company_profile' = in[2]
          /\ result' =
               LET r == Enh_calculate_investment_score(in[1], in[2], up)
               IN  [f \in DOMAIN r \cup {"analysis_timestamp", "market_insights"} |->
                      CASE f = "analysis_timestamp" -> now
                        [] f = "market_insights" -> Enh_generate_market_insights(in[1])
                        [] OTHER -> r[f]]
          /\ previous' = Append(previous, [op |-> "CallEnhanced", inputs |-> in,
                                           up |-> up, hashseed |-> hashseed,
                                           result |-> result'])
    /\ now' = now + 1
    /\ pc' = "done"
    /\ op' = "CallEnhanced"
    /\ UNCHANGED <<arg, data, entity, region, registry, ids, hashseed, system, requests, collector>>

CallGenerate ==
    /\ pc = "idle"
    /\ Len(previous) < MaxCalls
    /\ \E in \in RepeatMatchInputs :
         \E up \in SUBSET RRS_ties(in[1], in[2]) :
          /\ \A i \in 1..Len(previous) :
                (previous[i].op = "CallGenerate" /\ previous[i].inputs = in)
                => previous[i].up = up
          /\ entity' = in[1]
          /\ region' = in[2]
          /\ result' = generate_match_recommendations(in[1], in[2], hashseed, now, up)
          /\ previous' = Append(previous, [op |-> "CallGenerate", inputs |-> in,
                                           up |-> up, hashseed |-> hashseed,
                                           result |-> result'])
    /\ now' = now + 1
    /\ pc' = "done"
    /\ op' = "CallGenerate"
    /\ UNCHANGED <<regional_data, company_profile, arg, data, registry, ids, hashseed,
                   system, requests, collector>>

Restart ==
    /\ pc = "idle"
    /\ hashseed' \in HashSeeds \ {hashseed}
    /\ UNCHANGED <<pc, op, regional_data, company_profile, arg, data, entity, region,
                   registry, ids, result, now, previous, system, requests, collector>>


(***************************************************************************)
(* The service of revolutionary_regional_system.py: the global system and  *)
(* the routes, each request handled by a thread of the server.  A handler  *)
(* takes one step at a time, so that the handlers of concurrent requests   *)
(* interleave; at counts the steps a handler has taken, local holds its    *)
(* local variables and response the value it hands to jsonify.             *)
(***************************************************************************)

\* a handler that stored the matches it computed in self.matches
RegistriesAfterStoringMatches(sys, kind, value) ==
    IF kind = "matches" /\ value # <<>> THEN [sys EXCEPT !.matches = value] ELSE sys

\* the registries after a step of a handler: no handler, and no method a
\* handler calls, assigns to self.regions, self.entities or self.matches
RegistriesAfter(sys, kind, value) == sys

\* Flask hands a request to a free thread
Request(t) ==
    /\ requests[t].kind = "none"
    /\ \E rq \in {<<"analytics", "">>, <<"regions", "">>, <<"entities", "">>}
                 \cup ({"matches"} \X {"COMP-TECH", "INV-GROWTH", "UNKNOWN"})
                 \cup ({"entity"} \X {"GOV-TX", "COMP-TECH", "INV-GROWTH", "UNKNOWN"})
                 \cup ({"region"} \X {"TX-AUS", "NC-RAL", "TN-NAS", "UNKNOWN"}) :
          requests' = [requests EXCEPT ![t] = [NoRequest EXCEPT !.kind = rq[1],
                                                                   !.id = rq[2]]]
    /\ UNCHANGED <<pc, op, regional_data, company_profile, arg, data, entity, region,
                   registry, ids, result, hashseed, now, previous, system,
                   collector>>

\* get_matches: find_best_matches(entity_id) with the default limit 5
GetMatches(t) ==
    LET rq == requests[t]
        e == RS_lookup(system.entities, "entity_id", rq.id)
    IN  /\ rq.kind = "matches"
        /\ ~rq.done
        /\ \/ /\ rq.at = 0
              /\ ~e.found
              /\ requests' = [requests EXCEPT ![t].done = TRUE, ![t].response = <<>>]
           \/ /\ rq.at = 0
              /\ e.found
              /\ requests' = [requests EXCEPT ![t].at = 1,
                                              ![t].local = [entity |-> e.entry,
                                                            matches |-> <<>>]]
           \/ /\ rq.at \in 1..Len(system.regions)
              /\ \E up \in SUBSET RRS_ties(rq.local.entity, system.regions[rq.at]) :
                   requests' =
                     [requests EXCEPT
                        ![t].at = rq.at + 1,
                        ![t].local.matches =
                           Append(rq.local.matches,
                                  generate_match_recommendations(
                                     rq.local.entity, system.regions[rq.at],
                                     hashseed, now, up))]
           \/ /\ rq.at = Len(system.regions) + 1
              /\ requests' = [requests EXCEPT
                                ![t].done = TRUE,
                                ![t].response =
                                   SliceTo(SortByMatchScore(rq.local.matches), 5)]
        /\ system' = RegistriesAfter(system, "matches", requests'[t].response)
        /\ UNCHANGED <<pc, op, regional_data, company_profile, arg, data, entity,
                       region, registry, ids, result, hashseed, now, previous,
                   collector>>

\* get_analytics: get_regional_analytics(), statement after statement; the
\* average is the pair of the sum (thousandths) and the divisor
GetAnalytics(t) ==
    LET rq == requests[t]
        regions == system.regions
        tierValue == [EMERGING |-> "Emerging Region", GROWING |-> "Growing Region",
                      ESTABLISHED |-> "Established Region",
                      PREMIUM |-> "Premium Region"]
        typeValue == [GOVERNMENT |-> "government", COMPANY |-> "company",
                      INVESTOR |-> "investor", NONPROFIT |-> "nonprofit"]
        extended(r, f, v) == [g \in DOMAIN r \cup {f} |-> IF g = f THEN v ELSE r[g]]
    IN  /\ rq.kind = "analytics"
        /\ ~rq.done
        /\ \/ /\ rq.at = 0
              /\ requests' = [requests EXCEPT
                                ![t].at = 1,
                                ![t].local = [total_regions |-> Len(system.regions),
                                              total_entities |-> Len(system.entities),
                                              total_matches |-> Len(system.matches)]]
           \/ /\ rq.at = 1
              /\ requests' =
                   [requests EXCEPT
                      ![t].at = 2,
                      ![t].local =
                         extended(rq.local, "tier_distribution",
                            [v \in {tierValue[n] : n \in DOMAIN tierValue} |->
                               Cardinality({i \in 1..Len(regions) :
                                  tierValue[regions[i].development_tier] = v})])]
           \/ /\ rq.at = 2
              /\ requests' =
                   [requests EXCEPT
                      ![t].at = 3,
                      ![t].local =
                         extended(rq.local, "project_distribution",
                            [v \in {ProjectTypeValue[n] : n \in DOMAIN ProjectTypeValue} |->
                               Cardinality({i \in 1..Len(regions) :
                                  \E n \in regions[i].project_opportunities :
                                     ProjectTypeValue[n] = v})])]
           \/ /\ rq.at = 3
              /\ requests' =
                   [requests EXCEPT
                      ![t].at = 4,
                      ![t].local =
                         extended(rq.local, "entity_distribution",
                            [v \in {typeValue[n] : n \in DOMAIN typeValue} |->
                               Cardinality({i \in 1..Len(system.entities) :
                                  typeValue[system.entities[i].entity_type] = v})])]
           \/ /\ rq.at = 4
              /\ requests' =
                   [requests EXCEPT
                      ![t].done = TRUE,
                      ![t].response =
                         extended(
                            extended(rq.local, "average_match_score",
                               <<SumOver([i \in 1..Len(system.matches) |->
                                             system.matches[i].match_score],
                                         1..Len(system.matches)),
                                 Max(Len(system.matches), 1)>>),
                            "last_updated", now)]
        /\ system' = RegistriesAfter(system, "analytics", requests'[t].response)
        /\ UNCHANGED <<pc, op, regional_data, company_profile, arg, data, entity,
                       region, registry, ids, result, hashseed, now, previous,
                   collector>>

\* get_regions and get_entities: every record of the registry
GetAll(t) ==
    /\ requests[t].kind \in {"regions", "entities"}
    /\ ~requests[t].done
    /\ requests' = [requests EXCEPT ![t].done = TRUE,
                                    ![t].response = system[requests[t].kind]]
    /\ system' = RegistriesAfter(system, requests[t].kind, requests'[t].response)
    /\ UNCHANGED <<pc, op, regional_data, company_profile, arg, data, entity, region,
                   registry, ids, result, hashseed, now, previous,
                   collector>>

\* get_entity and get_region: the record, or the 404 answer
GetOne(t) ==
    LET rq == requests[t]
        hit == IF rq.kind = "entity"
               THEN RS_lookup(system.entities, "entity_id", rq.id)
               ELSE RS_lookup(system.regions, "region_id", rq.id)
    IN  /\ rq.kind \in {"entity", "region"}
        /\ ~rq.done
        /\ requests' =
             [requests EXCEPT
                ![t].done = TRUE,
                ![t].response =
                   IF hit.found THEN [status |-> 200, body |-> hit.entry]
                   ELSE [status |-> 404,
                         body |-> IF rq.kind = "entity" THEN "Entity not found"
                                  ELSE "Region not found"]]
        /\ system' = RegistriesAfter(system, rq.kind, requests'[t].response)
        /\ UNCHANGED <<pc, op, regional_data, company_profile, arg, data, entity,
                       region, registry, ids, result, hashseed, now, previous,
                   collector>>

\* the response is sent and the thread is free again
Respond(t) ==
    /\ requests[t].done
    /\ requests' = [requests EXCEPT ![t] = NoRequest]
    /\ UNCHANGED <<pc, op, regional_data, company_profile, arg, data, entity, region,
                   registry, ids, result, hashseed, now, previous, system,
                   collector>>

\* The operations of RealTimeDataCollector.
\* a collector is constructed in an environment with or without the key
NewCollector ==
    /\ pc = "idle"
    /\ \E key \in {"demo", "key"} : collector' = RealTimeDataCollector(key)
    /\ previous' = <<>>
    /\ UNCHANGED <<pc, op, regional_data, company_profile, arg, data, entity, region,
                   registry, ids, result, hashseed, now, system, requests>>

\* a call of get_market_data; time.time() is 1000 + 100 * now.  previous
\* keeps this call and the one before it.
GetMarketData ==
    /\ pc = "idle"
    /\ \E symbols \in SUBSET {"AAPL", "MSFT"} :
         \E source \in [yfinance : {"ok", "missing"}, yahoo : SUBSET symbols,
                        alpha : SUBSET symbols] :
            LET call == get_market_data(collector, symbols, 1000 + 100 * now, source)
            IN  /\ collector' = call.self
                /\ result' = [status |-> "ok", data |-> call.result]
                /\ previous' = SubSeq(<<[op |-> "GetMarketData", symbols |-> symbols,
                                         time |-> 1000 + 100 * now,
                                         result |-> call.result,
                                         queried |-> call.queried]>> \o previous,
                                      1, Min(2, Len(previous) + 1))
    /\ pc' = "done"
    /\ op' = "GetMarketData"
    /\ UNCHANGED <<regional_data, company_profile, arg, data, entity, region, registry,
                   ids, hashseed, now, system, requests>>

\* 100 seconds pass
Tick ==
    /\ now < MaxTicks
    /\ now' = now + 1
    /\ UNCHANGED <<pc, op, regional_data, company_profile, arg, data, entity, region,
                   registry, ids, result, hashseed, previous, system, requests,
                   collector>>

Next ==
    \/ ScoreAdvanced
    \/ ScoreEnhanced
    \/ ScoreFlat
    \/ AdvDetermineTier
    \/ EnhDetermineTier
    \/ DevelopmentTier
    \/ AdvRiskAssessment
    \/ EnhRiskAssessment
    \/ AdvBreakEven
    \/ EnhBreakEven
    \/ MatchScore
    \/ CalculateMatch
    \/ FindBestMatches
    \/ FindMatches
    \/ AnalyzeInvestment
    \/ Return

Spec == Init /\ [][Next]_vars

NextRepeat ==
    \/ CallEnhanced
    \/ CallGenerate
    \/ Restart
    \/ Return

SpecRepeat == Init /\ [][NextRepeat]_vars

NextServer ==
    \/ \E t \in 1..NThreads : Request(t)
    \/ \E t \in 1..NThreads : GetMatches(t)
    \/ \E t \in 1..NThreads : GetAnalytics(t)
    \/ \E t \in 1..NThreads : GetAll(t)
    \/ \E t \in 1..NThreads : GetOne(t)
    \/ \E t \in 1..NThreads : Respond(t)

SpecServer == Init /\ [][NextServer]_vars

NextCollector ==
    \/ NewCollector
    \/ GetMarketData
    \/ Tick
    \/ Return

SpecCollector == Init /\ [][NextCollector]_vars

(***************************************************************************)
(* Properties.                                                             *)
(***************************************************************************)

\* C1: for every region whose normalized metrics lie in [0,1] and every
\* company profile, each of the 12 component scores and the composite score
\* computed by calculate_investment_score lie in [0,100], and the score of
\* advanced_investment_algorithm lies in [0,100] for every input vector in
\* range.
C1_ScoresInRange ==
    /\ (/\ pc = "done"
        /\ op = "ScoreEnhanced"
        /\ \A f \in MetricFields : regional_data[f] \in 0..100)
       => /\ \A c \in ComponentNames : result.component_scores[c] \in 0..10000
          /\ result.composite_score \in 0..10000
    /\ (/\ pc = "done"
        /\ op = "ScoreAdvanced"
        /\ \A f \in MetricFields : regional_data[f] \in 0..100)
       => /\ \A c \in ComponentNames : result.component_scores[c] \in 0..Points(100)
          /\ result.composite_score \in 0..Composite(100)
    /\ (/\ pc = "done"
        /\ op = "ScoreFlat"
        /\ \A f \in DOMAIN data : data[f].parses /\ data[f].v \in 0..100)
       => result.score \in 0..10000

\* The sample region and company of create_sample_data, scored by the
\* enhanced engine: innovation is reported as 150.
C1_SampleInnovation150 ==
    /\ pc = "done"
    /\ op = "ScoreEnhanced"
    /\ regional_data = SampleRegion
    /\ company_profile = SampleCompany
    /\ result.component_scores.innovation = 15000

\* C2: in every scoring variant the weight table has one weight for each of
\* the 12 component names and no others, and the weights sum to 1.0.
C2_WeightTables ==
    /\ pc = "done" /\ op = "ScoreAdvanced"
       => /\ DOMAIN Adv_weights = DOMAIN result.component_scores
          /\ DOMAIN Adv_weights = ComponentNames
          /\ SumOver(Adv_weights, DOMAIN Adv_weights) = 100
    /\ pc = "done" /\ op = "ScoreEnhanced"
       => /\ DOMAIN Enh_weights = DOMAIN result.component_scores
          /\ DOMAIN Enh_weights = ComponentNames
          /\ SumOver(Enh_weights, DOMAIN Enh_weights) = 100
    /\ pc = "done" /\ op = "ScoreFlat"
       => /\ DOMAIN Flat_weights = DOMAIN result.components
          /\ Cardinality(DOMAIN Flat_weights) = Cardinality(ComponentNames)
          /\ SumOver(Flat_weights, DOMAIN Flat_weights) = 100

\* The flat variant run on the all-zero vector except geopolitical_risk = 1.0:
\* fourteen terms, and a score of 18 = 15 + 8 - 5, the thirteenth term being
\* subtracted with weight 0.05.
C2_FlatFourteenTerms ==
    /\ pc = "done"
    /\ op = "ScoreFlat"
    /\ Cardinality(DOMAIN result.components) = 14
    /\ \A f \in Flat_fields :
          /\ f \in DOMAIN data
          /\ data[f].parses
          /\ data[f].v = (IF f = "geopolitical_risk" THEN 100 ELSE 0)
    /\ result.score = 1800

\* C3: the tier classifier is inclusive on the lower edge of each tier: 85.00
\* is Tier 1, 84.99 is Tier 2, 70.00 is Tier 2 and 69.99 is Tier 3; every score
\* gets exactly one tier and a higher score never gets a lower tier.  The
\* 4-tier development classifier does the same at 0.85 / 0.70 / 0.55.
C3_TierBoundariesInclusive ==
    /\ (pc = "done" /\ op \in {"AdvDetermineTier", "EnhDetermineTier"})
       => /\ arg = Composite(85) => result.tier = "TIER_1"
          /\ arg = Composite(85) - 200 => result.tier = "TIER_2"
          /\ arg = Composite(70) => result.tier = "TIER_2"
          /\ arg = Composite(70) - 200 => result.tier = "TIER_3"
          /\ result.tier \in {"TIER_1", "TIER_2", "TIER_3"}
          /\ result.tier = "TIER_1" <=> arg >= Composite(85)
          /\ result.tier = "TIER_2" <=> (arg >= Composite(70) /\ arg < Composite(85))
          /\ result.tier = "TIER_3" <=> arg < Composite(70)
    /\ (pc = "done" /\ op = "DevelopmentTier")
       => /\ result.tier \in {"PREMIUM", "ESTABLISHED", "GROWING", "EMERGING"}
          /\ result.tier = "PREMIUM" <=> result.score >= 170000
          /\ result.tier = "ESTABLISHED" <=>
                (result.score >= 140000 /\ result.score < 170000)
          /\ result.tier = "GROWING" <=>
                (result.score >= 110000 /\ result.score < 140000)
          /\ result.tier = "EMERGING" <=> result.score < 110000

\* The classifier has been called with exactly 85.00 and answered Tier 1.
C3_Exactly85IsTier1 ==
    /\ pc = "done"
    /\ op = "AdvDetermineTier"
    /\ arg = Composite(85)
    /\ result.tier = "TIER_1"

\* C4: a composite score is classified Tier 3 only when it is at least 55 and
\* below 70; a score below 55 falls into a separate lowest tier and is never
\* reported as Tier 3.
C4_Tier3OnlyFrom55 ==
    /\ (pc = "done" /\ op = "AdvDetermineTier" /\ result.tier = "TIER_3")
       => (arg >= Adv_tier_thresholds.TIER_3 /\ arg < Adv_tier_thresholds.TIER_2)
    /\ (pc = "done" /\ op = "ScoreAdvanced" /\ result.tier_level = "TIER_3")
       => /\ result.composite_score >= Adv_tier_thresholds.TIER_3
          /\ result.composite_score < Adv_tier_thresholds.TIER_2

\* A composite score of 40.00 classified as Tier 3.
C4_Score40IsTier3 ==
    /\ pc = "done"
    /\ op = "AdvDetermineTier"
    /\ arg = Composite(40)
    /\ result.tier = "TIER_3"

\* C5: the risk level returned by the advanced engine's
\* _generate_risk_assessment is the maximum severity (Low < Medium < High <
\* Critical) among the checks that triggered, whatever their order, and Low
\* when none triggered.
C5_AdvRiskLevelIsMaxSeverity ==
    (pc = "done" /\ op \in {"AdvRiskAssessment", "ScoreAdvanced"})
    => LET rank == [LOW |-> 0, MEDIUM |-> 1, HIGH |-> 2, CRITICAL |-> 3]
           checks == Adv_risk_checks(regional_data)
           triggered == {checks[i].level : i \in {j \in DOMAIN checks : checks[j].triggered}}
           highest == CHOOSE l \in triggered \cup {"LOW"} :
                         \A m \in triggered : rank[m] <= rank[l]
       IN  result.risk_assessment.risk_level = RiskLevelValue[highest]

\* Political instability (High) and limited market access (Medium) both
\* triggered, and the assessment says Medium Risk.
C5_HighThenMediumIsMedium ==
    /\ pc = "done"
    /\ op = "AdvRiskAssessment"
    /\ regional_data.political_stability < 60
    /\ regional_data.market_access < 50
    /\ regional_data.inflation_rate <= 8
    /\ result.risk_assessment.risk_level = "Medium Risk"

\* C6: the risk level returned by the enhanced engine's
\* _generate_risk_assessment is the maximum severity among the triggered checks
\* (inflation Medium, currency High, political High, geopolitical Critical) for
\* every combination of triggered checks; when none triggers, the level is Low
\* and the factor list is the single sentinel.
C6_EnhRiskLevelIsMaxSeverity ==
    (pc = "done" /\ op \in {"EnhRiskAssessment", "ScoreEnhanced"})
    => LET rank == [LOW |-> 0, MEDIUM |-> 1, HIGH |-> 2, CRITICAL |-> 3]
           severity == [inflation |-> "MEDIUM", currency |-> "HIGH",
                        political |-> "HIGH", geopolitical |-> "CRITICAL"]
           triggered ==
               {k \in DOMAIN severity :
                   \E i \in DOMAIN result.risk_assessment.risk_factors :
                      k \in KeywordsIn(result.risk_assessment.risk_factors[i])
                      /\ (k = "political" =>
                            "geopolitical" \notin
                                KeywordsIn(result.risk_assessment.risk_factors[i]))}
           expected ==
               {k \in DOMAIN severity :
                   \/ k = "inflation" /\ regional_data.inflation_rate > 10
                   \/ k = "currency" /\ regional_data.currency_stability < 50
                   \/ k = "political" /\ regional_data.political_stability < 60
                   \/ k = "geopolitical" /\ regional_data.geopolitical_risk > 60}
           levels == {severity[k] : k \in triggered}
           highest == CHOOSE l \in levels \cup {"LOW"} :
                         \A m \in levels : rank[m] <= rank[l]
       IN  /\ triggered = expected
           /\ result.risk_assessment.risk_level = RiskLevelValue[highest]
           /\ expected = {} =>
                 /\ result.risk_assessment.risk_factors = <<"Low risk environment">>
                 /\ result.risk_assessment.risk_level = "Low Risk"

\* Inflation (Medium), currency (High) and geopolitical (Critical) checks have
\* all triggered and the assessment says Critical Risk.
C6_ThreeChecksCritical ==
    /\ pc = "done"
    /\ op = "EnhRiskAssessment"
    /\ regional_data.inflation_rate > 10
    /\ regional_data.currency_stability < 50
    /\ regional_data.geopolitical_risk > 60
    /\ Len(result.risk_assessment.risk_factors) = 3
    /\ result.risk_assessment.risk_level = "Critical Risk"

\* C7: with geopolitical_risk = 0.9 and every other metric nominal, the risk
\* assessment of the scoring engine has the top severity label as risk_level
\* and a geopolitical-risk entry among its risk_factors.
C7_GeopoliticalIsCritical ==
    (/\ pc = "done"
     /\ op \in {"AdvRiskAssessment", "EnhRiskAssessment", "ScoreAdvanced", "ScoreEnhanced"}
     /\ regional_data = [SampleRegion EXCEPT !.geopolitical_risk = 90])
    => /\ result.risk_assessment.risk_level = RiskLevelValue.CRITICAL
       /\ \E i \in DOMAIN result.risk_assessment.risk_factors :
             "geopolitical" \in KeywordsIn(result.risk_assessment.risk_factors[i])

\* The advanced engine assessed geopolitical_risk = 0.9 as Low Risk with the
\* "minimal risk" sentinel as its only factor.
C7_AdvGeopoliticalIsLow ==
    /\ pc = "done"
    /\ op = "AdvRiskAssessment"
    /\ regional_data = [SampleRegion EXCEPT !.geopolitical_risk = 90]
    /\ result.risk_assessment.risk_level = "Low Risk"
    /\ result.risk_assessment.risk_factors = <<"Minimal risk factors identified">>

\* C8: the break-even value is the sentinel "N/A" whenever the projected ROI
\* is <= 0 and a positive time value whenever it is > 0, in the bucketed
\* variant (advanced engine) and in the numeric-months variant (enhanced
\* engine).
C8_BreakEvenSentinel ==
    /\ (pc = "done" /\ op = "AdvBreakEven")
       => /\ arg <= 0 => result.break_even = "N/A"
          /\ arg > 0 => result.break_even \in {"2-3 years", "3-4 years", "4-5 years",
                                               "5+ years"}
    /\ (pc = "done" /\ op = "ScoreAdvanced")
       => (result.roi_projection.projected_roi <= 0
           <=> result.roi_projection.time_to_break_even = "N/A")
    /\ (pc = "done" /\ op = "EnhBreakEven")
       => /\ arg <= 0 => result.break_even.text = "N/A"
          /\ arg > 0 => (result.break_even.text = "months" /\ result.break_even.months > 0)
    /\ (pc = "done" /\ op = "ScoreEnhanced")
       => /\ result.roi_projection.projected_roi <= 0
             => result.roi_projection.break_even_months.text = "N/A"
          /\ result.roi_projection.projected_roi > 0
             => /\ result.roi_projection.break_even_months.text = "months"
                /\ result.roi_projection.break_even_months.months > 0

\* The bucketed variant called with an ROI of -5% answered "5+ years".
C8_NegativeRoiFivePlusYears ==
    /\ pc = "done"
    /\ op = "AdvBreakEven"
    /\ arg = 0 - 500
    /\ result.break_even = "5+ years"

\* C9: with the company and every other regional metric fixed, raising
\* infrastructure_score never decreases the composite score computed by
\* calculate_investment_score.
C9_InfrastructureMonotone ==
    /\ (pc = "done" /\ op = "ScoreEnhanced")
       => \A v \in MetricGrid("infrastructure_score") :
             v >= regional_data.infrastructure_score
             => LET raised == [regional_data EXCEPT !.infrastructure_score = v]
                    before == Enh_composite_score(
                                  Enh_component_scores(regional_data, company_profile))
                    after == Enh_composite_score(
                                 Enh_component_scores(raised, company_profile))
                IN  /\ after >= before
                    /\ after > before
                       => \A up \in SUBSET Enh_ties(raised, company_profile) :
                             Enh_calculate_investment_score(raised, company_profile,
                                                            up).composite_score
                                >= result.composite_score
    /\ (pc = "done" /\ op = "ScoreAdvanced")
       => \A v \in MetricGrid("infrastructure_score") :
             v >= regional_data.infrastructure_score
             => Adv_calculate_investment_score(
                    [regional_data EXCEPT !.infrastructure_score = v],
                    company_profile, {}).composite_score
                   >= result.composite_score

\* The enhanced engine has scored a region with infrastructure_score = 0.5
\* and the same region with 0.9 scores strictly higher.
C9_RaisedFrom50To90 ==
    /\ pc = "done"
    /\ op = "ScoreEnhanced"
    /\ regional_data.infrastructure_score = 50
    /\ Enh_calculate_investment_score([regional_data EXCEPT !.infrastructure_score = 90],
                                      company_profile, {}).composite_score
          > result.composite_score

\* C10: for every entity and every region the match score of
\* calculate_match_score, and of RevolutionarySystem.calculate_match, lies in
\* [0,1], also when the region's growth_rate or unemployment_rate is outside
\* the range the formula normalizes by.
C10_MatchScoreInUnitInterval ==
    /\ (pc = "done" /\ op = "MatchScore") => result.match_score \in 0..1000
    /\ (pc = "done" /\ op = "CalculateMatch") => result.score \in 0..60000

\* calculate_match_score returned more than 1.0 for a region whose growth
\* rate is above 10%.
C10_MatchScoreAboveOne ==
    /\ pc = "done"
    /\ op = "MatchScore"
    /\ region.growth_rate > 100
    /\ result.match_score > 1000

C12_UnknownEntityNotFound ==
    LET known == {registry.entities[i].entity_id : i \in 1..Len(registry.entities)}
    IN  (pc = "done" /\ op \in {"FindBestMatches", "FindMatches"} /\ ids[1] \notin known)
        => /\ result.status = "ok"
           /\ \A entity_id \in known :
                 result # (IF op = "FindBestMatches"
                           THEN find_best_matches(registry.entities, << >>, entity_id,
                                                  arg, hashseed, now, << >>)
                           ELSE [status |-> "ok",
                                 matches |-> find_matches(registry.entities, << >>,
                                                          entity_id, arg, << >>)])

\* find_best_matches("UNKNOWN") over the three seeded regions returns the
\* empty list
C12_UnknownEntityEmptyList ==
    /\ pc = "done"
    /\ op = "FindBestMatches"
    /\ ids[1] = "UNKNOWN"
    /\ registry.regions = RRS_sample_regions
    /\ arg = 3
    /\ result = [status |-> "ok", matches |-> << >>]

\* C13: for an entity with empty preferred_regions and empty
\* project_interests, calculate_match_score completes without a
\* divide-by-zero for any region, its project-interest overlap term is 0, and
\* the score differs between two regions only through their economic and
\* risk sub-scores: it is 0.25 * 0.5 + 0.25 * economic + 0.20 * risk rounded
\* to 3 decimals, and any region with the same two sub-scores gets it too.
C13_EmptyEntityEconomicRiskOnly ==
    (/\ pc = "done"
     /\ op = "MatchScore"
     /\ entity.preferred_regions = {}
     /\ entity.project_interests = {})
    => /\ result.status = "ok"
       /\ \E up \in BOOLEAN :
             result.match_score
                = Round(125000 + RRS_sub_scores(region).economic_compatibility * 25
                               + RRS_sub_scores(region).risk_score * 20, 1000, up)
       /\ \A r2 \in RRS_match_regions
                    \cup {[region EXCEPT !.region_id = "OTHER",
                                         !.project_opportunities = P] :
                             P \in SUBSET {"TECHNOLOGY", "LOGISTICS"}} :
             RRS_sub_scores(r2) = RRS_sub_scores(region)
                => \E up \in BOOLEAN :
                      result.match_score = calculate_match_score(entity, r2, up)

\* the entity without preferences matched against Austin: 0.125 + 0.25 * 0.755
\* + 0.20 * 0.818 = 0.47735, rounded 0.477
C13_EmptyEntityAustin ==
    /\ pc = "done"
    /\ op = "MatchScore"
    /\ entity = [entity_id |-> "NEW-1", preferred_regions |-> {}, project_interests |-> {}]
    /\ region = RRS_sample_regions[1]
    /\ result = [status |-> "ok", match_score |-> 477]

\* C14: in advanced_investment_algorithm, a numeric field that is missing or
\* cannot be parsed is replaced by the documented default of that field
\* (infrastructure 0.7, cost_of_living 0.5, risk_factor 0.5, growth_rate
\* 0.05, geopolitical_risk 0.3, market_volatility 0.4, ...), and every other
\* supplied field keeps the value the caller gave.
C14_FieldwiseDefaults ==
    (pc = "done" /\ op = "ScoreFlat") =>
        /\ result.status = "ok"
        /\ \A f \in Flat_fields :
              LET used == IF f \in {"cost_of_living", "risk_factor", "geopolitical_risk",
                                    "market_volatility"}
                          THEN 100 - result.components[f]
                          ELSE result.components[f]
              IN  used = IF f \in DOMAIN data /\ data[f].parses
                         THEN data[f].v
                         ELSE Flat_defaults[f]

\* every field supplied as 0.2 except an unparseable infrastructure_score:
\* the talent the algorithm uses is 0.7 and the cost of living 0.7
C14_OneBadFieldResetsAll ==
    /\ pc = "done"
    /\ op = "ScoreFlat"
    /\ DOMAIN data = Flat_fields
    /\ ~data["infrastructure_score"].parses
    /\ data["talent_availability"] = [parses |-> TRUE, v |-> 20]
    /\ data["cost_of_living"] = [parses |-> TRUE, v |-> 20]
    /\ result.components["talent_availability"] = 70
    /\ result.components["cost_of_living"] = 30

\* C15: a scoring request that omits every optional field produces exactly
\* the same result as a request that passes the documented default of every
\* field explicitly, both for advanced_investment_algorithm called with an
\* empty form and for the analyze_investment endpoint called with an empty
\* JSON object.
C15_OmittedEqualsExplicitDefaults ==
    /\ (pc = "done" /\ op = "ScoreFlat" /\ DOMAIN data = {})
          => \E up \in BOOLEAN :
                result = advanced_investment_algorithm(
                            [f \in Flat_fields |->
                                [parses |-> TRUE, v |-> Flat_defaults[f]]], up)
    /\ (pc = "done" /\ op = "AnalyzeInvestment" /\ DOMAIN data = {})
          => result = analyze_investment(App_defaults, {})

\* the endpoint called with {} answers 400 "No data provided"
C15_EmptyJsonIs400 ==
    /\ pc = "done"
    /\ op = "AnalyzeInvestment"
    /\ DOMAIN data = {}
    /\ result.code = 400
    /\ result.error = "No data provided"

\* C16: an unknown categorical value never raises and maps to a neutral
\* entry: a company whose industry_focus is not in the industry table gets
\* multiplier 1.0 on every component (no industry adjustment), an unknown
\* risk_tolerance leaves the risk_factors score unscaled, and an unknown
\* investment_size gets the neutral size multiplier.  "healthcare" is an
\* industry the advanced engine knows and has no multipliers for, "medium"
\* the risk tolerance and the size neither engine scales.
C16_UnknownCategoricalNeutral ==
    LET rd == regional_data
        cp == company_profile
        unknown_industry ==
            cp.industry_focus \notin {"manufacturing", "tech", "technology", "logistics",
                                      "finance", "healthcare", "energy", "retail",
                                      "real_estate"}
        unknown_risk == cp.risk_tolerance \notin {"low", "medium", "high"}
        unknown_size == cp.investment_size \notin {"small", "medium", "large", "enterprise"}
        unscaled == [infrastructure |-> Enh_calculate_infrastructure_score(rd),
                     talent |-> Enh_calculate_talent_score(rd, cp),
                     cost_efficiency |-> Enh_calculate_cost_efficiency(rd, cp),
                     market_access |-> Enh_calculate_market_access(rd),
                     regulatory |-> Enh_calculate_regulatory_score(rd),
                     political_stability |-> Enh_calculate_political_stability(rd),
                     growth_potential |-> Enh_calculate_growth_potential(rd, cp),
                     risk_factors |-> Enh_calculate_risk_factors(rd, cp),
                     digital_readiness |-> Enh_calculate_digital_readiness(rd, cp),
                     sustainability |-> Enh_calculate_sustainability_score(rd, cp),
                     innovation |-> Enh_calculate_innovation_score(rd, cp),
                     supply_chain |-> Enh_calculate_supply_chain_score(rd, cp)]
    IN  /\ (pc = "done" /\ op = "ScoreAdvanced") =>
              /\ unknown_industry =>
                    result.component_scores
                       = Adv_component_scores(rd, [cp EXCEPT !.industry_focus = "healthcare"])
              /\ unknown_risk =>
                    result.component_scores.risk_factors
                       = Adv_calculate_risk_factors(rd, [cp EXCEPT !.risk_tolerance = "medium"])
              /\ unknown_size => result.cost_savings.multiplier = 1
        /\ (pc = "done" /\ op = "ScoreEnhanced") =>
              /\ result.status = "ok"
              /\ unknown_industry =>
                    \A c \in ComponentNames :
                       \E up \in BOOLEAN :
                          result.component_scores[c] = Round(unscaled[c], 2, up)
              /\ unknown_risk =>
                    \E up \in BOOLEAN :
                       result.component_scores.risk_factors
                          = Round(Enh_calculate_risk_factors(
                                     rd, [cp EXCEPT !.risk_tolerance = "medium"]), 2, up)
              /\ unknown_size =>
                    result.cost_savings
                       = Enh_calculate_cost_savings(rd, [cp EXCEPT !.investment_size = "medium"])

\* the advanced engine scores the sample region for an "electronics" company
\* with the multipliers of MANUFACTURING
C16_ElectronicsScoredAsManufacturing ==
    /\ pc = "done"
    /\ op = "ScoreAdvanced"
    /\ regional_data = SampleRegion
    /\ company_profile = [SampleCompany EXCEPT !.industry_focus = "electronics"]
    /\ result.component_scores
          = Adv_component_scores(SampleRegion,
                                 [SampleCompany EXCEPT !.industry_focus = "manufacturing"])
    /\ result.component_scores
          # Adv_component_scores(SampleRegion,
                                 [SampleCompany EXCEPT !.industry_focus = "healthcare"])

\* C17: for every valid RegionalMetrics and CompanyProfile,
\* AdvancedRegionalInvestmentAlgorithm.calculate_investment_score returns an
\* AlgorithmResult with all of its fields populated; no call ends in an
\* exception.
C17_AdvancedReturnsResult ==
    (pc = "done" /\ op = "ScoreAdvanced") =>
        /\ result.status = "ok"
        /\ {"composite_score", "investment_tier", "tier_level", "roi_projection",
            "cost_savings", "risk_assessment", "component_scores", "confidence_level",
            "analysis_timestamp", "recommendations", "market_insights",
            "competitive_analysis"} \subseteq DOMAIN result

\* the call for the region and company of create_sample_data ends in
\* AttributeError
C17_SampleRaisesAttributeError ==
    /\ pc = "done"
    /\ op = "ScoreAdvanced"
    /\ regional_data = SampleRegion
    /\ company_profile = SampleCompany
    /\ result.status = "raised"
    /\ result.exception = "AttributeError"

\* C18: for the Scenario A region (infrastructure 0.85, talent 0.80,
\* cost_of_living 0.65, market_access 0.80, political_stability 0.85,
\* growth_rate 0.08, regulatory_ease 0.75, digital_infrastructure 0.90,
\* tax_rate 0.25, inflation 0.03, currency_stability 0.95, the remaining
\* fields as in create_sample_data and the HTTP layer's defaults) and a
\* technology / large / medium-risk company, calculate_investment_score
\* yields composite_score >= 80 and a tier of Tier 1 or Tier 2.  The company
\* is the one of create_sample_data; the advanced engine's composite score is
\* in 1/20000, the enhanced engine's rounded one in hundredths.
C18_ScenarioA ==
    (/\ pc = "done"
     /\ op \in {"ScoreAdvanced", "ScoreEnhanced"}
     /\ regional_data = SampleRegion
     /\ company_profile = SampleCompany)
    => /\ result.status = "ok"
       /\ result.composite_score
             >= (IF op = "ScoreAdvanced" THEN Composite(80) ELSE 8000)
       /\ result.tier_level \in {"TIER_1", "TIER_2"}

\* the advanced engine computes 70.31375 for Scenario A, Tier 2, and raises
C18_AdvancedScenarioA70 ==
    /\ pc = "done"
    /\ op = "ScoreAdvanced"
    /\ regional_data = SampleRegion
    /\ company_profile = SampleCompany
    /\ result.status = "raised"
    /\ result.composite_score = 1406275
    /\ result.tier_level = "TIER_2"

\* C19: both engines are deterministic functions of their inputs: two calls of
\* calculate_investment_score with equal region and company, and two calls of
\* generate_match_recommendations with equal entity and region, return results
\* equal in every field but analysis_timestamp, match_id and created_at, and
\* the records passed in are the same after the call as before it.
C19_EqualInputsEqualResults ==
    /\ \A i, j \in 1..Len(previous) :
          (previous[i].op = previous[j].op /\ previous[i].inputs = previous[j].inputs)
          => \A f \in (DOMAIN previous[i].result \cup DOMAIN previous[j].result)
                      \ {"analysis_timestamp", "match_id", "created_at"} :
                /\ f \in DOMAIN previous[i].result
                /\ f \in DOMAIN previous[j].result
                /\ previous[i].result[f] = previous[j].result[f]
    /\ (pc = "done" /\ op = "CallEnhanced")
       => <<regional_data, company_profile>> = previous[Len(previous)].inputs
    /\ (pc = "done" /\ op = "CallGenerate")
       => <<entity, region>> = previous[Len(previous)].inputs

\* COMP-TECH and Austin Metro are matched twice, by two interpreter processes:
\* the shared project interests are listed in two different orders
C19_ProjectOrderDiffers ==
    /\ Len(previous) = 2
    /\ previous[1].op = "CallGenerate"
    /\ previous[2].op = "CallGenerate"
    /\ previous[1].inputs = <<RRS_sample_entities[2], RRS_sample_regions[1]>>
    /\ previous[2].inputs = previous[1].inputs
    /\ previous[1].hashseed # previous[2].hashseed
    /\ previous[1].result.match_score = previous[2].result.match_score
    /\ previous[1].result.compatibility_factors
          # previous[2].result.compatibility_factors

\* C20: after RevolutionaryRegionalSystem is initialized no operation reachable
\* from the API writes to the regions, entities or matches registries: under
\* every interleaving of concurrent requests the registries are the seeded
\* ones, every answer is built from complete seeded records, and the analytics
\* report total_matches = 0.
C20_RegistriesNeverWritten ==
    /\ system = [regions |-> RRS_sample_regions, entities |-> RRS_sample_entities,
                 matches |-> <<>>]
    /\ \A t \in 1..NThreads :
          LET rq == requests[t]
          IN  rq.done =>
                /\ rq.kind = "analytics"
                   => /\ rq.response.total_matches = 0
                      /\ rq.response.total_regions = Len(RRS_sample_regions)
                      /\ rq.response.total_entities = Len(RRS_sample_entities)
                      /\ rq.response.average_match_score = <<0, 1>>
                /\ rq.kind = "regions" => rq.response = RRS_sample_regions
                /\ rq.kind = "entities" => rq.response = RRS_sample_entities
                /\ (rq.kind \in {"entity", "region"} /\ rq.id # "UNKNOWN")
                   => /\ rq.response.status = 200
                      /\ \E i \in 1..Len(RRS_sample_regions) :
                            \/ /\ rq.kind = "region"
                               /\ rq.response.body = RRS_sample_regions[i]
                               /\ RRS_sample_regions[i].region_id = rq.id
                            \/ /\ rq.kind = "entity"
                               /\ rq.response.body = RRS_sample_entities[i]
                               /\ RRS_sample_entities[i].entity_id = rq.id
                /\ (rq.kind = "matches" /\ rq.id # "UNKNOWN")
                   => /\ Len(rq.response) = Len(RRS_sample_regions)
                      /\ \A k \in 1..Len(rq.response) :
                            \E i \in 1..Len(RRS_sample_regions), up \in SUBSET
                               {"match_score", "projected_roi", "break_even_months"} :
                               rq.response[k] = generate_match_recommendations(
                                                   rq.local.entity,
                                                   RRS_sample_regions[i],
                                                   hashseed, now, up)

\* one thread is in the middle of find_best_matches for COMP-TECH, with two
\* of the three regions matched, while another has finished the analytics
C20_AnalyticsDuringMatching ==
    \E t, u \in 1..NThreads :
       /\ requests[t].kind = "matches"
       /\ requests[t].id = "COMP-TECH"
       /\ ~requests[t].done
       /\ requests[t].at = 3
       /\ Len(requests[t].local.matches) = 2
       /\ requests[u].kind = "analytics"
       /\ requests[u].done
       /\ requests[u].response.total_matches = 0
       /\ requests[u].response.tier_distribution["Premium Region"] = 1

C22_FloorKeepsExactlyPointThree ==
    (pc = "done" /\ op = "FindMatches")
    => /\ \A k \in 1..Len(result.matches) : result.matches[k].match_score >= 300
       /\ arg >= Len(registry.regions)
          => \A i \in 1..Len(registry.regions) :
                calculate_match(registry.entities, registry.regions, ids[1],
                                registry.regions[i].region_id) >= 18000
                => \E k \in 1..Len(result.matches) :
                      result.matches[k].region_id = registry.regions[i].region_id

\* INV-GROWTH shares no interest with Raleigh-Durham (tier Established); with
\* growth rate 3.0 the score is exactly 0.3 and the region is left out
C22_ExactlyPointThreeLeftOut ==
    /\ pc = "done"
    /\ op = "FindMatches"
    /\ ids[1] = "INV-GROWTH"
    /\ arg = 3
    /\ registry.regions = [RS_regions EXCEPT ![2] = [@ EXCEPT !.growth_rate = 30]]
    /\ calculate_match(registry.entities, registry.regions, "INV-GROWTH", "NC-RAL") = 18000
    /\ Len(result.matches) = 2
    /\ \A k \in 1..Len(result.matches) : result.matches[k].region_id # "NC-RAL"

\* C23: the mitigation_strategies of a risk assessment hold exactly one
\* strategy for each triggered risk factor, in the order of risk_factors, each
\* kind of factor mapped to its own table entry (in the enhanced variant the
\* geopolitical factor to "Establish local partnerships", the political one to
\* "Diversify across multiple regions"); the no-risk sentinel has no strategy.
C23_OneStrategyPerFactor ==
    (pc = "done" /\ op \in {"AdvRiskAssessment", "EnhRiskAssessment"})
    => LET ra == result.risk_assessment
           table == [x \in {"Currency volatility risk", "Political instability risk",
                            "Regulatory complexity risk", "Limited market access risk",
                            "High inflation risk", "High inflation rate",
                            "Currency volatility", "Political instability",
                            "Geopolitical risks"} |->
                       CASE x = "Currency volatility risk"
                              -> "Implement currency hedging strategies"
                         [] x = "Political instability risk"
                              -> "Establish local partnerships and government relations"
                         [] x = "Regulatory complexity risk"
                              -> "Engage local legal and compliance experts"
                         [] x = "Limited market access risk"
                              -> "Develop alternative market entry strategies"
                         [] x = "High inflation risk"
                              -> "Implement cost escalation clauses in contracts"
                         [] x = "High inflation rate"
                              -> "Implement inflation-linked contracts"
                         [] x = "Currency volatility" -> "Use currency hedging strategies"
                         [] x = "Political instability"
                              -> "Diversify across multiple regions"
                         [] x = "Geopolitical risks" -> "Establish local partnerships"]
       IN  IF ra.risk_factors \in {<<"Minimal risk factors identified">>,
                                   <<"Low risk environment">>}
           THEN ra.mitigation_strategies = << >>
           ELSE /\ Len(ra.mitigation_strategies) = Len(ra.risk_factors)
                /\ \A i \in 1..Len(ra.risk_factors) :
                      ra.mitigation_strategies[i] = table[ra.risk_factors[i]]

\* the enhanced assessment of a region with high inflation and high
\* geopolitical risk: the geopolitical factor gets the political strategy
C23_GeopoliticalGetsPoliticalStrategy ==
    /\ pc = "done"
    /\ op = "EnhRiskAssessment"
    /\ regional_data.inflation_rate > 10
    /\ regional_data.geopolitical_risk > 60
    /\ result.risk_assessment.risk_factors = <<"High inflation rate", "Geopolitical risks">>
    /\ result.risk_assessment.mitigation_strategies
          = <<"Implement inflation-linked contracts", "Diversify across multiple regions">>

\* C24: generate_match_recommendations never ends in a divide-by-zero fault:
\* when the ROI derived from the match score (match_score * 25) is <= 0 the
\* break_even_months field is the sentinel "N/A" (not a number), and otherwise
\* it is a positive number of months.
C24_BreakEvenGuarded ==
    (pc = "done" /\ op = "CallGenerate")
    => /\ result.status = "ok"
       /\ IF result.match_score * 25 <= 0
          THEN result.roi_projection.break_even_months \notin Int
          ELSE /\ result.roi_projection.break_even_months \in Int
               /\ result.roi_projection.break_even_months > 0

\* an entity without preferences matched with the region in a slump at
\* growth -8%: the match score is 0.0 and the call raises
C24_ZeroScoreRaises ==
    /\ pc = "done"
    /\ op = "CallGenerate"
    /\ entity.entity_id = "NEW-1"
    /\ region.region_id = "XX-LOW"
    /\ region.growth_rate = 0 - 80
    /\ calculate_match_score(entity, region, FALSE) = 0
    /\ result.status = "ZeroDivisionError"

\* C25: for every non-empty JSON body the analyze_investment handler supplies
\* a value (the request's or a default) for every field of RegionalMetrics and
\* of CompanyProfile, so building the two records never fails, the handler
\* reaches the scoring call and answers with success = true.
C25_NonEmptyBodySucceeds ==
    (pc = "done" /\ op = "AnalyzeInvestment" /\ DOMAIN data # {})
    => /\ result.code = 200
       /\ result.success

\* the body that names every key with its default value: CompanyProfile is
\* built without competitive_advantages and the answer is a 500
C25_FullBodyTypeError ==
    /\ pc = "done"
    /\ op = "AnalyzeInvestment"
    /\ data = App_defaults
    /\ result.code = 500
    /\ ~result.success
    /\ result.error = "TypeError"

\* C26: the investment_tier of every AlgorithmResult is the tier the tier
\* thresholds assign to the composite_score reported in that same result (the
\* value rounded to 2 decimals): no result reports composite_score 85.00 with
\* Tier 2 or 70.00 with Tier 3.
C26_TierOfReportedScore ==
    (pc = "done" /\ op \in {"ScoreAdvanced", "ScoreEnhanced"} /\ result.status = "ok")
    => LET reported == result.composite_score * 200
           tier == IF reported >= Composite(85) THEN "TIER_1"
                   ELSE IF reported >= Composite(70) THEN "TIER_2"
                   ELSE "TIER_3"
       IN  /\ result.tier_level = tier
           /\ result.investment_tier = InvestmentTierValue[tier]

\* the sample region with infrastructure 0.90 and regulatory ease 0.95: the
\* enhanced engine's score 84.99725 is reported as 85.00 with Tier 2
C26_Reported85IsTier2 ==
    /\ pc = "done"
    /\ op = "ScoreEnhanced"
    /\ regional_data = [SampleRegion EXCEPT !.infrastructure_score = 90,
                                            !.regulatory_ease = 95]
    /\ company_profile = SampleCompany
    /\ Enh_composite_score(Enh_component_scores(regional_data, company_profile)) = 1699945
    /\ result.composite_score = 8500
    /\ result.tier_level = "TIER_2"

\* C27: in the advanced engine the ROI score brackets and the confidence
\* buckets use the same boundaries as the tier classifier: every composite
\* score classified Tier 1 receives the top ROI bracket bonus (+8) and
\* confidence "Very High (95%)", and every score classified Tier 2 receives the
\* +4 bonus and confidence "High (85%)".
C27_BracketsFollowTiers ==
    (pc = "done" /\ op = "AdvDetermineTier")
    => /\ result.tier = "TIER_1"
          => /\ Adv_score_bracket_bonus(arg) = 800
             /\ Adv_calculate_confidence_level(arg) = "Very High (95%)"
       /\ result.tier = "TIER_2"
          => /\ Adv_score_bracket_bonus(arg) = 400
             /\ Adv_calculate_confidence_level(arg) = "High (85%)"

\* the score 85 exactly: Tier 1, with the +4 bonus and confidence High (85%)
C27_Score85Tier1BonusFour ==
    /\ pc = "done"
    /\ op = "AdvDetermineTier"
    /\ arg = Composite(85)
    /\ result.tier = "TIER_1"
    /\ Adv_score_bracket_bonus(arg) = 400
    /\ Adv_calculate_confidence_level(arg) = "High (85%)"

\* C28: every region seeded into the RevolutionaryRegionalSystem registry
\* carries the development_tier that calculate_development_tier computes from
\* that region's own metrics.
C28_SeededTierIsComputedTier ==
    /\ \A i \in 1..Len(system.regions) :
          \A err \in {0 - 1, 0, 1} :
             system.regions[i].development_tier
                = calculate_development_tier(system.regions[i], err)
    /\ (/\ pc = "done"
        /\ op = "DevelopmentTier"
        /\ \E i \in 1..Len(system.regions) : region = system.regions[i])
       => result.tier = region.development_tier

\* calculate_development_tier applied to the seeded Raleigh-Durham, whose tier
\* in the registry is Established: the computed tier is Premium
C28_RaleighComputedPremium ==
    /\ pc = "done"
    /\ op = "DevelopmentTier"
    /\ region = system.regions[2]
    /\ region.region_id = "NC-RAL"
    /\ region.development_tier = "ESTABLISHED"
    /\ result.tier = "PREMIUM"

\* C29: after any sequence of get_market_data calls with arbitrary symbol
\* lists, the dictionary a call returns has entries only for symbols that this
\* call requested; a cache hit never hands back the data fetched for a
\* different symbol list of an earlier call.
C29_OnlyRequestedSymbols ==
    (pc = "done" /\ op = "GetMarketData")
    => \A s \in DOMAIN result.data :
          /\ s \in previous[1].symbols
          /\ result.data[s].symbol = s

\* AAPL is fetched; 100 seconds later MSFT is requested and the call returns
\* the cached AAPL entry
C29_MsftRequestGetsAapl ==
    /\ pc = "done"
    /\ op = "GetMarketData"
    /\ Len(previous) = 2
    /\ previous[2].symbols = {"AAPL"}
    /\ previous[2].queried
    /\ previous[1].symbols = {"MSFT"}
    /\ previous[1].time = previous[2].time + 100
    /\ ~previous[1].queried
    /\ DOMAIN result.data = {"AAPL"}
    /\ result.data["AAPL"].timestamp = previous[2].time

\* C30: a get_market_data call in which the fetch of every requested symbol
\* failed does not populate the cache: the next call, also within the
\* 300-second expiry window, queries the data sources again instead of
\* returning the empty result; a result is served from the cache only if it
\* came from a fetch younger than cache_expiry.
C30_FailedFetchNotCached ==
    (pc = "done" /\ op = "GetMarketData")
    => /\ (/\ Len(previous) = 2
           /\ previous[2].symbols # {}
           /\ previous[2].queried
           /\ DOMAIN previous[2].result = {}
           /\ previous[1].time - previous[2].time < 300)
          => previous[1].queried
       /\ ~previous[1].queried
          => /\ "market_data" \in DOMAIN collector.last_update
             /\ previous[1].time - collector.last_update["market_data"]
                   < collector.cache_expiry
             /\ result.data = collector.market_data_cache

\* both fetches of a call for AAPL and MSFT fail; the call made 200 seconds
\* later returns the empty dict without going to the data sources
C30_EmptyResultServedFromCache ==
    /\ pc = "done"
    /\ op = "GetMarketData"
    /\ Len(previous) = 2
    /\ previous[2].symbols = {"AAPL", "MSFT"}
    /\ previous[2].queried
    /\ DOMAIN previous[2].result = {}
    /\ previous[1].symbols = {"AAPL", "MSFT"}
    /\ previous[1].time = previous[2].time + 200
    /\ ~previous[1].queried
    /\ DOMAIN result.data = {}
    /\ collector.last_update["market_data"] = previous[2].time

====
